---- MODULE Spec2Model ----
(***************************************************************************)
(* Control plane of the remapping engine: the TCP server of                *)
(* src/src/tcp_server.rs (one reader thread per connection, a registry of  *)
(* connections, a shared engine state behind one lock, a bounded wake-up   *)
(* channel to the engine loop).                                            *)
(***************************************************************************)
EXTENDS Integers, Sequences, FiniteSets, TLC

(***************************************************************************)
(* Bounds of the model.                                                    *)
(***************************************************************************)
\* messages the clients send, over all connections
MaxMsgs == 2
\* the connections (streams) the accept loop hands to reader threads
ConnSeq == << "c1", "c2" >>
Conns == {ConnSeq[i] : i \in 1..Len(ConnSeq)}
\* the accept loop takes the incoming streams in this order
Before(d, c) == \E i, j \in 1..Len(ConnSeq) : i < j /\ ConnSeq[i] = d /\ ConnSeq[j] = c
\* the peer address strings the connections can come from, in the order of first use
AddrSeq == << "a1", "a2" >>
Addrs == {AddrSeq[i] : i \in 1..Len(AddrSeq)}

\* events in one debounced batch, triggers counted before a reload, dropped triggers
\* counted, restarts of the watcher
MaxBatch == 2
MaxTrig == 3
MaxDropped == 2
MaxRestarts == 2

NoConn == "none"
NoAddr == "noaddr"
None == "None"

(***************************************************************************)
(* The shared engine state (Kanata), as far as the server reads or writes  *)
(* it.                                                                     *)
(***************************************************************************)
\* k.layer_info: the layer table, in table order
layer_info ==
    << [name |-> "base", cfg_text |-> "cfg-base"],
       [name |-> "nav", cfg_text |-> "cfg-nav"] >>

\* names a client can ask for in ChangeLayer: the two layers and a name no layer has
LayerArgs == {"base", "nav", "nolayer"}

\* k.virtual_keys: name -> index in the fake-key row
virtual_keys == [n \in {"vk1"} |-> 0]

FakeKeyActionMessage == {"Press", "Release", "Tap", "Toggle"}

MAX_VALIDATION_CONFIG_BYTES == 1000000

\* lengths of config_content the clients send
ContentLens == {0, MAX_VALIDATION_CONFIG_BYTES, MAX_VALIDATION_CONFIG_BYTES + 1}

(***************************************************************************)
(* tcp_protocol: ClientMessage                                             *)
(***************************************************************************)
ReloadTypes == {"Reload", "ReloadNext", "ReloadPrev", "ReloadNum", "ReloadFile"}

ClientMessage ==
    [type : {"ChangeLayer"}, new : LayerArgs]
    \cup [type : {"RequestLayerNames", "RequestCurrentLayerInfo", "RequestCurrentLayerName"}]
    \cup [type : {"ActOnFakeKey"}, name : {"vk1"}, action : FakeKeyActionMessage]
    \cup [type : {"ActOnFakeKey"}, name : {"nokey"}, action : {"Tap"}]
    \cup [type : {"SetMouse"}, x : {3}, y : {4}]
    \cup [type : ReloadTypes]
    \cup [type : {"ValidateConfig"}, len : {0}, request_id : {None}]
    \cup [type : {"ValidateConfig"}, len : ContentLens \ {0}, request_id : {"req-1"}]
    \cup [type : {"ValidateConfig"}, len : {MAX_VALIDATION_CONFIG_BYTES + 1}, request_id : {None}]
    \cup [type : {"SetSessionMode"}, quiet : BOOLEAN]

NoMsg == [type |-> "NoMsg"]
\* what the deserializer yields for bytes that are no ClientMessage
Malformed == [type |-> "Malformed"]
\* the stream iterator ends
Eof == [type |-> "Eof"]

IsCommand(m) == m \in ClientMessage /\ m.type # "SetSessionMode"

(***************************************************************************)
(* file_watcher.rs: what the watcher works on                              *)
(***************************************************************************)
\* k.cfg_paths, and the files include directives can name
cfg_paths == {"cfg"}
IncludeFiles == {"inc1", "inc2"}

\* k.file_watcher = None
NoWatcher == 0

\* a debounced event, by the first of the callback's checks it passes: is_watched_file,
\* parent_dir_match, dir_is_parent_of_watched, or none of them
EventKinds == {"watched", "parent_dir", "dir_parent", "other"}
Matched(e) == e # "other"

\* the batches the debouncer can deliver
RECURSIVE SeqsUpTo(_, _)
SeqsUpTo(S, n) ==
    IF n = 0 THEN {<< >>}
    ELSE SeqsUpTo(S, n - 1) \cup {Append(q, x) : q \in SeqsUpTo(S, n - 1), x \in S}
Batches == SeqsUpTo(EventKinds, MaxBatch) \ {<< >>}

VARIABLES
    kanata,        \* the shared engine state
    connections,   \* the registry: peer address -> stream of a connection, or NoConn
    phase,         \* per connection: "new" (not accepted), "open", "done" (reader returned),
                   \* "failed" (the accept thread panicked on it), "panicked" (its reader did)
    peer,          \* per connection: its peer address
    closed,        \* per connection: the client has closed its end of the stream
    pc,            \* per connection: "read", "dispatch" or "wake"; at the grain of the
                   \* locks also "push_lock", "push_write", "locked", "write", "err_write",
                   \* "remove", "removing", "final_remove", "final_removing"
    quiet,         \* per connection: local quiet
    sent_initial_layer_change,
    cur,           \* per connection: the item last read from the stream
    nread,         \* per connection: number of items read
    hist,          \* per connection: shape of the input so far
    lcw,           \* per connection: number of initial LayerChange writes
    resp,          \* per connection: the writes (and sink calls) made for cur, in order
    cmds,          \* per connection: number of commands (not SetSessionMode) read
    wakes,         \* per connection: number of wake-up events pushed
    derr,          \* per connection: a domain error was reported or logged for a command
    reqs,          \* per connection: for each item read, the request_id it carried
    sent,          \* per connection: the lines written to the stream so far, in order
    klock,         \* the engine lock: "free" or the thread that holds it
    file_watcher,  \* k.file_watcher: the installed debouncer, or NoWatcher
    file_watcher_restart_requested,
    included_files,   \* k.included_files
    live,          \* the native watchers that exist: [id, paths]
    created,       \* number of debouncers created so far
    new_debouncer, \* restart_watcher's local
    wpc,           \* the watcher's callback thread: "idle", "try", "locked"
    batch,         \* the events of the delivered batch still to be handled
    epc,           \* the engine loop: "idle", "locked", "restart", "create", "install"
    cpc,           \* a connection thread at a reload command: "idle", "locked"
    trig,          \* reload requests made since the flag was last cleared
    collapsed,     \* reload requests the last reload answered
    dropped,       \* triggers the watcher dropped
    restarts,      \* restarts of the watcher done
    spc,           \* start_file_watcher: "store", "new", "watch", "install", "done", "failed"
    debouncer,     \* start_file_watcher's local: the debouncer being set up
    start_included_files,  \* start_file_watcher's local included_files, while it runs
    fs,            \* the file system a function under check works on
    call,          \* the function under check and its arguments
    ret,           \* what the function has returned or built so far
    rlock,         \* the registry lock: "free" or the thread that holds it
    undrained,     \* the connections whose client has stopped reading its socket
    listening,     \* the accept thread is alive
    wakeup_channel \* number of events in the bounded wake-up channel, at the grain of the locks

watcherVars == << klock, file_watcher, file_watcher_restart_requested, included_files,
                  live, created, new_debouncer, wpc, batch, epc, cpc, trig, collapsed,
                  dropped, restarts, spc, debouncer, start_included_files >>

pureVars == << fs, call, ret >>

threadVars == << rlock, undrained, listening, wakeup_channel >>

vars == << kanata, connections, phase, peer, closed, pc, quiet,
           sent_initial_layer_change, cur, nread, hist, lcw, resp, cmds, wakes, derr,
           reqs, sent, watcherVars, pureVars, threadVars >>

connVars == << phase, peer, closed, pc, quiet, sent_initial_layer_change, cur,
               nread, hist, lcw, resp, cmds, wakes, derr,
                    reqs, sent >>

(***************************************************************************)
(* tcp_protocol: ServerMessage and ServerResponse                          *)
(***************************************************************************)
LayerChange(new) == [type |-> "LayerChange", new |-> new]
LayerNames(names) == [type |-> "LayerNames", names |-> names]
CurrentLayerInfo(name, cfg_text) ==
    [type |-> "CurrentLayerInfo", name |-> name, cfg_text |-> cfg_text]
CurrentLayerNameMsg(name) == [type |-> "CurrentLayerName", name |-> name]
\* ServerMessage::Error { msg }: the text is kept as its prefix and the value formatted into it
ErrorMsg(prefix, arg) == [type |-> "Error", prefix |-> prefix, arg |-> arg]
ValidationResult(success, errors, warnings, error_count, warning_count, request_id) ==
    [type |-> "ValidationResult", success |-> success, errors |-> errors,
     warnings |-> warnings, error_count |-> error_count,
     warning_count |-> warning_count, request_id |-> request_id]

ResponseOk == [status |-> "Ok"]
ResponseError(prefix, arg) == [status |-> "Error", prefix |-> prefix, arg |-> arg]

\* one stream.write_all: the message, its family and whether the write succeeded
\* (family "Sink": a call of the output sink and whether it succeeded)
Wr(m, fam, ok) == [msg |-> m, fam |-> fam, ok |-> ok]

IsWrite(w) == w.fam \in {"ServerMessage", "ServerResponse"}
IsLayerChange(w) == w.fam = "ServerMessage" /\ w.msg.type = "LayerChange"
IsErrorMsg(w) == w.fam = "ServerMessage" /\ w.msg.type = "Error"

(***************************************************************************)
(* The engine's operations the server calls (crate::kanata).               *)
(***************************************************************************)
LayerIndex(name) ==
    IF \E i \in 1..Len(layer_info) : layer_info[i].name = name
    THEN CHOOSE i \in 1..Len(layer_info) : layer_info[i].name = name
    ELSE 0

\* Kanata::change_layer: a known name becomes the current layer
change_layer(k, new) ==
    IF LayerIndex(new) = 0 THEN k ELSE [k EXCEPT !.cur_layer = LayerIndex(new)]

\* handle_fakekey_action on the fake-key row
handle_fakekey_action(k, action) ==
    CASE action = "Press" -> [k EXCEPT !.fake_down = TRUE]
      [] action = "Release" -> [k EXCEPT !.fake_down = FALSE]
      [] action = "Tap" -> [k EXCEPT !.fake_down = FALSE]
      [] action = "Toggle" -> [k EXCEPT !.fake_down = ~k.fake_down]

\* kbd_out.set_mouse: the sink moves the pointer of the OS or fails; the engine state stays
set_mouse(k, x, y, ok) == k

\* Kanata::handle_client_command for the five reload commands: on success a reload is requested
handle_client_command(k, cmd, ok) ==
    IF ok THEN [k EXCEPT !.live_reload_requested = TRUE] ELSE k

\* the engine loop performs the requested reload and clears the flag
do_live_reload(k) == [k EXCEPT !.live_reload_requested = FALSE]

\* cfg::validate_config_str: the (errors, warnings) the validator can return for a content
Diag(line, sev, cat) ==
    [line |-> line, column |-> None, file |-> "configuration", severity |-> sev,
     category |-> cat, message |-> "m", help_text |-> None]

validate_config_str(len) ==
    IF len = 0
    THEN { << << Diag(1, "Error", "Syntax") >>, << >> >>,
           << << Diag(1, "Error", "Syntax"), Diag(1, "Error", "Include") >>, << >> >> }
    ELSE { << << >>, << >> >>,
           << << >>, << Diag(3, "Warning", "Platform") >> >>,
           << << Diag(2, "Error", "Semantic") >>, << Diag(3, "Warning", "Platform") >> >> }

(***************************************************************************)
(* tcp_server.rs                                                           *)
(***************************************************************************)
\* a variant that files every diagnostic as a warning
convert_diagnostic_AllWarnings(d) ==
    [line |-> d.line, message |-> d.message, severity |-> "warning",
     column |-> d.column, file |-> d.file,
     category |-> CASE d.category = "Syntax" -> "syntax"
                    [] d.category = "Semantic" -> "semantic"
                    [] d.category = "Include" -> "include"
                    [] d.category = "Platform" -> "platform",
     help_text |-> d.help_text]

convert_diagnostic(d) ==
    [line |-> d.line, message |-> d.message,
     severity |-> IF d.severity = "Error" THEN "error" ELSE "warning",
     column |-> d.column, file |-> d.file,
     category |-> CASE d.category = "Syntax" -> "syntax"
                    [] d.category = "Semantic" -> "semantic"
                    [] d.category = "Include" -> "include"
                    [] d.category = "Platform" -> "platform",
     help_text |-> d.help_text]

\* a variant that calls a result with warnings a failure
validate_config_content_WarningsFail(out, request_id) ==
    ValidationResult(Len(out[1]) = 0 /\ Len(out[2]) = 0,
                     [i \in 1..Len(out[1]) |-> convert_diagnostic(out[1][i])],
                     [i \in 1..Len(out[2]) |-> convert_diagnostic(out[2][i])],
                     Len(out[1]), Len(out[2]), request_id)

\* a variant that does not pass the request_id on
validate_config_content_NoRequestId(out, request_id) ==
    ValidationResult(Len(out[1]) = 0,
                     [i \in 1..Len(out[1]) |-> convert_diagnostic(out[1][i])],
                     [i \in 1..Len(out[2]) |-> convert_diagnostic(out[2][i])],
                     Len(out[1]), Len(out[2]), None)

\* validate_config_content, given what the validator returned
validate_config_content(out, request_id) ==
    LET converted_errors == [i \in 1..Len(out[1]) |-> convert_diagnostic(out[1][i])]
        converted_warnings == [i \in 1..Len(out[2]) |-> convert_diagnostic(out[2][i])]
        error_count == Len(converted_errors)
        warning_count == Len(converted_warnings)
    IN  ValidationResult(error_count = 0, converted_errors, converted_warnings,
                         error_count, warning_count, request_id)

\* the synthetic result for an oversized config_content
OversizeResult(len, request_id) ==
    ValidationResult(FALSE,
        << [line |-> 0, message |-> << "config_content too large", len >>,
            severity |-> "error", column |-> None, file |-> "configuration",
            category |-> "semantic", help_text |-> "Reduce configuration size"] >>,
        << >>, 1, 0, request_id)

\* a variant with an inclusive limit
IsOversize_Inclusive(len) == len >= MAX_VALIDATION_CONFIG_BYTES

\* a variant with the limit at twice the constant
IsOversize_TwiceTheLimit(len) == len > 2 * MAX_VALIDATION_CONFIG_BYTES

\* config_content.len() > MAX_VALIDATION_CONFIG_BYTES
IsOversize(len) == len > MAX_VALIDATION_CONFIG_BYTES

\* connections.lock().remove(addr)
Remove(reg, addr) == [reg EXCEPT ![addr] = NoConn]

\* send_message: a failed write removes the connection; the result tells whether to go on
send_message(reg, addr, ok) ==
    [ok |-> ok, connections |-> IF ok THEN reg ELSE Remove(reg, addr)]

\* send_response: the same for a ServerResponse
send_response(reg, addr, ok) ==
    [ok |-> ok, connections |-> IF ok THEN reg ELSE Remove(reg, addr)]

\* k.layer_info[k.layout.b().current_layer()].name
CurrentLayerName(k) == layer_info[k.cur_layer].name

\* a variant that does not look at sent_initial_layer_change
SessionModeNeedsPush_IgnoresSent(q, s) == ~q

\* the condition of the push in the SetSessionMode branch: !*q && !sent_initial_layer_change
SessionModeNeedsPush(q, s) == ~q /\ ~s

\* a variant that pushes before every command of a non-quiet session
CommandNeedsPush_EveryCommand(q, s) == ~q

\* a variant that does not look at quiet
CommandNeedsPush_IgnoresQuiet(q, s) == ~s

\* the condition of the push before a command: !quiet && !sent_initial_layer_change
CommandNeedsPush(q, s) == ~q /\ ~s

\* shape of the input of a connection after one more message
HistNext(h, m) ==
    CASE m \notin ClientMessage -> h
      [] h = "fresh" ->
            IF m.type = "SetSessionMode"
            THEN (IF m.quiet THEN "quietfirst" ELSE "mixed")
            ELSE "cmds"
      [] h \in {"cmds", "quietfirst"} ->
            IF m.type = "SetSessionMode" THEN "mixed" ELSE h
      [] OTHER -> "mixed"

InitSystem ==
    /\ kanata = [cur_layer |-> 1, fake_down |-> FALSE, live_reload_requested |-> FALSE]
    /\ connections = [a \in Addrs |-> NoConn]
    /\ phase = [c \in Conns |-> "new"]
    /\ peer = [c \in Conns |-> NoAddr]
    /\ closed = [c \in Conns |-> FALSE]
    /\ pc = [c \in Conns |-> "read"]
    /\ quiet = [c \in Conns |-> FALSE]
    /\ sent_initial_layer_change = [c \in Conns |-> FALSE]
    /\ cur = [c \in Conns |-> NoMsg]
    /\ nread = [c \in Conns |-> 0]
    /\ hist = [c \in Conns |-> "fresh"]
    /\ lcw = [c \in Conns |-> 0]
    /\ resp = [c \in Conns |-> << >>]
    /\ cmds = [c \in Conns |-> 0]
    /\ wakes = [c \in Conns |-> 0]
    /\ derr = [c \in Conns |-> FALSE]
    /\ reqs = [c \in Conns |-> << >>]
    /\ sent = [c \in Conns |-> << >>]
    /\ klock = "free"
    /\ file_watcher = NoWatcher
    /\ file_watcher_restart_requested = FALSE
    /\ included_files = {}
    /\ live = {}
    /\ created = 0
    /\ new_debouncer = NoWatcher
    /\ wpc = "idle"
    /\ batch = << >>
    /\ epc = "idle"
    /\ cpc = "idle"
    /\ trig = 0
    /\ collapsed = 0
    /\ dropped = 0
    /\ restarts = 0
    /\ spc = "store"
    /\ debouncer = NoWatcher
    /\ start_included_files = {}
    /\ rlock = "free"
    /\ undrained = {}
    /\ listening = TRUE
    /\ wakeup_channel = 0

NoFs == [cwd |-> "none"]
NoCall == [fn |-> "none"]
NoRet == [done |-> FALSE]

\* the server and the watcher at their start; no function is under check
Init ==
    /\ InitSystem
    /\ fs = NoFs
    /\ call = NoCall
    /\ ret = NoRet

(***************************************************************************)
(* The accept loop and the clients.                                        *)
(***************************************************************************)
\* a peer address is free for a new connection when no client still holds a stream from it
AddrFree(a) ==
    /\ \A d \in Conns : (phase[d] = "open" /\ peer[d] = a) => closed[d]
    /\ \A i, j \in 1..Len(AddrSeq) :
        (i < j /\ AddrSeq[j] = a) => \E d \in Conns : peer[d] = AddrSeq[i]

\* listener.incoming(): the registry entry is inserted, then the reader thread is spawned
Accept(c) ==
    /\ phase[c] = "new"
    /\ \A d \in Conns : Before(d, c) => phase[d] # "new"
    /\ \E a \in Addrs :
        /\ AddrFree(a)
        /\ connections' = [connections EXCEPT ![a] = c]
        /\ peer' = [peer EXCEPT ![c] = a]
    /\ phase' = [phase EXCEPT ![c] = "open"]
    /\ UNCHANGED << kanata, closed, pc, quiet, sent_initial_layer_change,
                    cur, nread, hist, lcw, resp, cmds, wakes, derr,
                    reqs, sent >>
    /\ UNCHANGED << watcherVars, pureVars, threadVars >>

\* the client closes its end of the stream
ClientClose(c) ==
    /\ phase[c] = "open"
    /\ pc[c] = "read"
    /\ ~closed[c]
    /\ closed' = [closed EXCEPT ![c] = TRUE]
    /\ UNCHANGED << kanata, connections, phase, peer, pc, quiet,
                    sent_initial_layer_change, cur, nread, hist, lcw, resp, cmds, wakes, derr,
                    reqs, sent >>
    /\ UNCHANGED << watcherVars, pureVars, threadVars >>

(***************************************************************************)
(* The reader thread of a connection.                                      *)
(***************************************************************************)
RECURSIVE Sum(_, _)
Sum(f, S) == IF S = {} THEN 0 ELSE LET x == CHOOSE y \in S : TRUE IN f[x] + Sum(f, S \ {x})

\* a variant that takes the next item while the wake-up for the last one is still to be sent
CanRead_BeforeWakeup(c) ==
    /\ phase[c] = "open"
    /\ pc[c] \in {"read", "wake"}
    /\ ~closed[c]
    /\ Sum(nread, Conns) < MaxMsgs

\* for v in reader: the next item of the stream, when the loop is at its head
CanRead(c) ==
    /\ phase[c] = "open"
    /\ pc[c] = "read"
    /\ ~closed[c]
    /\ Sum(nread, Conns) < MaxMsgs

\* a variant that ends the reader and leaves the registry entry in place
LeaveLoop_NoRemove(c) ==
    /\ phase' = [phase EXCEPT ![c] = "done"]
    /\ pc' = [pc EXCEPT ![c] = "read"]
    /\ UNCHANGED connections

\* the reader leaves its loop: break, then the removal after the loop
LeaveLoop(c) ==
    /\ phase' = [phase EXCEPT ![c] = "done"]
    /\ pc' = [pc EXCEPT ![c] = "read"]
    /\ connections' = Remove(connections, peer[c])

\* the reader stays in its loop, at position p
StayAt(c, p) ==
    /\ pc' = [pc EXCEPT ![c] = p]
    /\ UNCHANGED << phase, connections >>

\* the request_id of a ValidateConfig; no other message has one
NoRequestId == "n/a"
RequestIdOf(m) == IF m.type = "ValidateConfig" THEN m.request_id ELSE NoRequestId

\* what a successful write puts on the stream: the number of the item of the input it was
\* written for, the kind of the line and, for a ValidationResult, its request_id
Line(n, w) ==
    [n |-> n,
     type |-> IF w.fam = "ServerResponse" THEN "ServerResponse" ELSE w.msg.type,
     request_id |-> IF w.fam = "ServerMessage" /\ w.msg.type = "ValidationResult"
                    THEN w.msg.request_id ELSE NoRequestId]

\* stream.write_all of w while the reader works on item n: the line is on the stream when
\* the write succeeded
Written(c, n, w) ==
    sent' = [sent EXCEPT ![c] = IF IsWrite(w) /\ w.ok THEN Append(@, Line(n, w)) ELSE @]

Took(c, m) ==
    /\ cur' = [cur EXCEPT ![c] = m]
    /\ reqs' = [reqs EXCEPT ![c] = Append(@, RequestIdOf(m))]
    /\ nread' = [nread EXCEPT ![c] = @ + 1]
    /\ hist' = [hist EXCEPT ![c] = HistNext(@, m)]
    /\ cmds' = [cmds EXCEPT ![c] = IF IsCommand(m) THEN @ + 1 ELSE @]

\* a variant that goes on after a failed write
InitialPush_IgnoresError(c, next) ==
    /\ \E ok \in BOOLEAN :
        /\ resp' = [resp EXCEPT
                      ![c] = << Wr(LayerChange(CurrentLayerName(kanata)), "ServerMessage", ok) >>]
        /\ Written(c, nread[c] + 1, Wr(LayerChange(CurrentLayerName(kanata)), "ServerMessage", ok))
        /\ lcw' = [lcw EXCEPT ![c] = @ + 1]
        /\ sent_initial_layer_change' = [sent_initial_layer_change EXCEPT ![c] = ok]
        /\ StayAt(c, next)

\* write of the initial LayerChange, under the engine lock; its failure ends the reader
InitialPush(c, next) ==
    /\ \E ok \in BOOLEAN :
        /\ resp' = [resp EXCEPT
                      ![c] = << Wr(LayerChange(CurrentLayerName(kanata)), "ServerMessage", ok) >>]
        /\ Written(c, nread[c] + 1, Wr(LayerChange(CurrentLayerName(kanata)), "ServerMessage", ok))
        /\ lcw' = [lcw EXCEPT ![c] = @ + 1]
        /\ IF ok
           THEN /\ sent_initial_layer_change' = [sent_initial_layer_change EXCEPT ![c] = TRUE]
                /\ StayAt(c, next)
           ELSE /\ UNCHANGED sent_initial_layer_change
                /\ LeaveLoop(c)

NoPush(c, next) ==
    /\ resp' = [resp EXCEPT ![c] = << >>]
    /\ UNCHANGED << lcw, sent_initial_layer_change, sent >>
    /\ StayAt(c, next)

\* a variant without the continue: the message goes on to the dispatch and the wake-up
ReadSetSessionMode_FallsThrough(c) ==
    /\ CanRead(c)
    /\ \E q \in BOOLEAN :
        /\ Took(c, [type |-> "SetSessionMode", quiet |-> q])
        /\ quiet' = [quiet EXCEPT ![c] = q]
        /\ IF SessionModeNeedsPush(q, sent_initial_layer_change[c])
           THEN InitialPush(c, "wake")
           ELSE NoPush(c, "wake")
    /\ UNCHANGED << kanata, peer, closed, wakes, derr >>
    /\ UNCHANGED << watcherVars, pureVars, threadVars >>

\* Ok(SetSessionMode { quiet: q }): handled before the dispatch, then continue
ReadSetSessionMode(c) ==
    /\ CanRead(c)
    /\ \E q \in BOOLEAN :
        /\ Took(c, [type |-> "SetSessionMode", quiet |-> q])
        /\ quiet' = [quiet EXCEPT ![c] = q]
        /\ IF SessionModeNeedsPush(q, sent_initial_layer_change[c])
           THEN InitialPush(c, "read")
           ELSE NoPush(c, "read")
    /\ UNCHANGED << kanata, peer, closed, wakes, derr >>
    /\ UNCHANGED << watcherVars, pureVars, threadVars >>

\* Ok(event) for any other command: the initial push if it is due, then the dispatch
ReadCommand(c) ==
    /\ CanRead(c)
    /\ \E m \in ClientMessage :
        /\ m.type # "SetSessionMode"
        /\ Took(c, m)
    /\ IF CommandNeedsPush(quiet[c], sent_initial_layer_change[c])
       THEN InitialPush(c, "dispatch")
       ELSE NoPush(c, "dispatch")
    /\ UNCHANGED << kanata, peer, closed, quiet, wakes, derr >>
    /\ UNCHANGED << watcherVars, pureVars, threadVars >>

\* a variant that reports the error and goes on reading
ReadMalformed_NoBreak(c) ==
    /\ CanRead(c)
    /\ Took(c, Malformed)
    /\ \E ok \in BOOLEAN :
        /\ resp' = [resp EXCEPT
                      ![c] = << Wr(ResponseError("Failed to deserialize command", "e"),
                                   "ServerResponse", ok) >>]
        /\ Written(c, nread[c] + 1,
                   Wr(ResponseError("Failed to deserialize command", "e"), "ServerResponse", ok))
    /\ StayAt(c, "read")
    /\ UNCHANGED << kanata, peer, closed, quiet, sent_initial_layer_change,
                    lcw, wakes, derr >>
    /\ UNCHANGED << watcherVars, pureVars, threadVars >>

\* Err(e): the input is no ClientMessage
ReadMalformed(c) ==
    /\ CanRead(c)
    /\ Took(c, Malformed)
    /\ \E ok \in BOOLEAN :
        /\ resp' = [resp EXCEPT
                      ![c] = << Wr(ResponseError("Failed to deserialize command", "e"),
                                   "ServerResponse", ok) >>]
        /\ Written(c, nread[c] + 1,
                   Wr(ResponseError("Failed to deserialize command", "e"), "ServerResponse", ok))
    /\ LeaveLoop(c)
    /\ UNCHANGED << kanata, peer, closed, quiet, sent_initial_layer_change,
                    lcw, wakes, derr >>
    /\ UNCHANGED << watcherVars, pureVars, threadVars >>

\* the iterator ends: the client has closed the stream
ReadEof(c) ==
    /\ phase[c] = "open"
    /\ pc[c] = "read"
    /\ closed[c]
    /\ cur' = [cur EXCEPT ![c] = Eof]
    /\ resp' = [resp EXCEPT ![c] = << >>]
    /\ LeaveLoop(c)
    /\ UNCHANGED << kanata, peer, closed, quiet, sent_initial_layer_change,
                    nread, hist, lcw, cmds, wakes, derr,
                    reqs, sent >>
    /\ UNCHANGED << watcherVars, pureVars, threadVars >>

(***************************************************************************)
(* The dispatch: match event { ... }                                       *)
(***************************************************************************)
Dispatching(c, types) == phase[c] = "open" /\ pc[c] = "dispatch" /\ cur[c].type \in types

Reply(c, w) ==
    /\ resp' = [resp EXCEPT ![c] = Append(@, w)]
    /\ Written(c, nread[c], w)

histVars == << nread, hist, lcw, cmds, reqs >>

DomainError(c, e) == derr' = [derr EXCEPT ![c] = @ \/ e]

\* ChangeLayer { new }: no reply
DispatchChangeLayer(c) ==
    /\ Dispatching(c, {"ChangeLayer"})
    /\ kanata' = change_layer(kanata, cur[c].new)
    /\ StayAt(c, "wake")
    /\ UNCHANGED << peer, closed, quiet, sent_initial_layer_change, cur,
                    resp, sent, wakes, histVars, derr >>
    /\ UNCHANGED << watcherVars, pureVars, threadVars >>

\* a variant that lists the layer names from the last layer to the first
DispatchRequestLayerNames_Reversed(c) ==
    /\ Dispatching(c, {"RequestLayerNames"})
    /\ \E ok \in BOOLEAN :
        Reply(c, Wr(LayerNames([i \in 1..Len(layer_info) |->
                                   layer_info[Len(layer_info) + 1 - i].name]),
                    "ServerMessage", ok))
    /\ StayAt(c, "wake")
    /\ UNCHANGED << kanata, peer, closed, quiet, sent_initial_layer_change,
                    cur, wakes, histVars, derr >>
    /\ UNCHANGED << watcherVars, pureVars, threadVars >>

\* RequestLayerNames {}: a failed write is logged
DispatchRequestLayerNames(c) ==
    /\ Dispatching(c, {"RequestLayerNames"})
    /\ \E ok \in BOOLEAN :
        Reply(c, Wr(LayerNames([i \in 1..Len(layer_info) |-> layer_info[i].name]),
                    "ServerMessage", ok))
    /\ StayAt(c, "wake")
    /\ UNCHANGED << kanata, peer, closed, quiet, sent_initial_layer_change,
                    cur, wakes, histVars, derr >>
    /\ UNCHANGED << watcherVars, pureVars, threadVars >>

\* a variant that reports the unknown name and then acts on index 0 of the fake-key row
DispatchUnknownFakeKey_ActsAnyway(c) ==
    /\ Dispatching(c, {"ActOnFakeKey"})
    /\ cur[c].name \notin DOMAIN virtual_keys
    /\ kanata' = handle_fakekey_action(kanata, "Toggle")
    /\ \E ok \in BOOLEAN :
        /\ Reply(c, Wr(ErrorMsg("unknown virtual/fake key", cur[c].name),
                       "ServerMessage", ok))
        /\ DomainError(c, ok)
        /\ IF ok THEN StayAt(c, "read") ELSE LeaveLoop(c)
    /\ UNCHANGED << peer, closed, quiet, sent_initial_layer_change,
                    cur, wakes, histVars >>
    /\ UNCHANGED << watcherVars, pureVars, threadVars >>

\* ActOnFakeKey { name, action } with a name that is not in virtual_keys
DispatchUnknownFakeKey(c) ==
    /\ Dispatching(c, {"ActOnFakeKey"})
    /\ cur[c].name \notin DOMAIN virtual_keys
    /\ \E ok \in BOOLEAN :
        /\ Reply(c, Wr(ErrorMsg("unknown virtual/fake key", cur[c].name),
                       "ServerMessage", ok))
        /\ DomainError(c, ok)
        /\ IF ok THEN StayAt(c, "read") ELSE LeaveLoop(c)
    /\ UNCHANGED << kanata, peer, closed, quiet, sent_initial_layer_change,
                    cur, wakes, histVars >>
    /\ UNCHANGED << watcherVars, pureVars, threadVars >>

\* ActOnFakeKey { name, action } with a name of virtual_keys
DispatchActOnFakeKey(c) ==
    /\ Dispatching(c, {"ActOnFakeKey"})
    /\ cur[c].name \in DOMAIN virtual_keys
    /\ kanata' = handle_fakekey_action(kanata, cur[c].action)
    /\ StayAt(c, "wake")
    /\ UNCHANGED << peer, closed, quiet, sent_initial_layer_change, cur,
                    resp, sent, wakes, histVars, derr >>
    /\ UNCHANGED << watcherVars, pureVars, threadVars >>

\* SetMouse { x, y }: a failure of the sink is logged
DispatchSetMouse(c) ==
    /\ Dispatching(c, {"SetMouse"})
    /\ \E ok \in BOOLEAN :
        /\ kanata' = set_mouse(kanata, cur[c].x, cur[c].y, ok)
        /\ Reply(c, Wr([type |-> "set_mouse"], "Sink", ok))
        /\ DomainError(c, ~ok)
    /\ StayAt(c, "wake")
    /\ UNCHANGED << peer, closed, quiet, sent_initial_layer_change, cur,
                    wakes, histVars >>
    /\ UNCHANGED << watcherVars, pureVars, threadVars >>

\* RequestCurrentLayerInfo {}: a failed write is logged
DispatchRequestCurrentLayerInfo(c) ==
    /\ Dispatching(c, {"RequestCurrentLayerInfo"})
    /\ \E ok \in BOOLEAN :
        Reply(c, Wr(CurrentLayerInfo(layer_info[kanata.cur_layer].name,
                                     layer_info[kanata.cur_layer].cfg_text),
                    "ServerMessage", ok))
    /\ StayAt(c, "wake")
    /\ UNCHANGED << kanata, peer, closed, quiet, sent_initial_layer_change,
                    cur, wakes, histVars, derr >>
    /\ UNCHANGED << watcherVars, pureVars, threadVars >>

\* RequestCurrentLayerName {}: a failed write is logged
DispatchRequestCurrentLayerName(c) ==
    /\ Dispatching(c, {"RequestCurrentLayerName"})
    /\ \E ok \in BOOLEAN :
        Reply(c, Wr(CurrentLayerNameMsg(layer_info[kanata.cur_layer].name),
                    "ServerMessage", ok))
    /\ StayAt(c, "wake")
    /\ UNCHANGED << kanata, peer, closed, quiet, sent_initial_layer_change,
                    cur, wakes, histVars, derr >>
    /\ UNCHANGED << watcherVars, pureVars, threadVars >>

\* ValidateConfig { config_content, request_id } over the size limit
DispatchValidateOversize(c) ==
    /\ Dispatching(c, {"ValidateConfig"})
    /\ IsOversize(cur[c].len)
    /\ \E ok \in BOOLEAN :
        LET r == send_message(connections, peer[c], ok) IN
        /\ Reply(c, Wr(OversizeResult(cur[c].len, cur[c].request_id), "ServerMessage", ok))
        /\ IF r.ok THEN StayAt(c, "read") ELSE LeaveLoop(c)
    /\ UNCHANGED << kanata, peer, closed, quiet, sent_initial_layer_change,
                    cur, wakes, histVars, derr >>
    /\ UNCHANGED << watcherVars, pureVars, threadVars >>

\* the call cfg::validate_config_str(config_content) inside validate_config_content
ValidatorCall(len) == Wr([type |-> "validate_config_str", len |-> len], "Validator", TRUE)

\* ValidateConfig { config_content, request_id } within the size limit
DispatchValidateConfig(c) ==
    /\ Dispatching(c, {"ValidateConfig"})
    /\ ~IsOversize(cur[c].len)
    /\ \E out \in validate_config_str(cur[c].len), ok \in BOOLEAN :
        LET r == send_message(connections, peer[c], ok) IN
        /\ resp' = [resp EXCEPT
                      ![c] = @ \o << ValidatorCall(cur[c].len),
                                     Wr(validate_config_content(out, cur[c].request_id),
                                        "ServerMessage", ok) >>]
        /\ Written(c, nread[c],
                   Wr(validate_config_content(out, cur[c].request_id), "ServerMessage", ok))
        /\ IF r.ok THEN StayAt(c, "wake") ELSE LeaveLoop(c)
    /\ UNCHANGED << kanata, peer, closed, quiet, sent_initial_layer_change,
                    cur, wakes, histVars, derr >>
    /\ UNCHANGED << watcherVars, pureVars, threadVars >>

\* what kanata.lock().handle_client_command(reload_cmd) returns: Ok(_) or Err(e)
HandlerResult(handled) ==
    IF handled THEN [ok |-> TRUE, err |-> None] ELSE [ok |-> FALSE, err |-> "reload failed"]

\* the call of the reload handler with the command, kept with what it returned
HandlerCall(cmd, handled) ==
    Wr([type |-> "handle_client_command", cmd |-> cmd, result |-> HandlerResult(handled)],
       "Handler", handled)

\* a variant that answers Ok whatever the handler returned
reload_response_AlwaysOk(result) == ResponseOk

\* Ok(_) => ServerResponse::Ok, Err(e) => ServerResponse::Error { msg: format!("{e}") }
reload_response(result) ==
    IF result.ok THEN ResponseOk ELSE ResponseError("", result.err)

\* a variant in which an error of the reload handler ends the reader
DispatchReload_BreakOnError(c) ==
    /\ Dispatching(c, ReloadTypes)
    /\ \E handled \in BOOLEAN, ok \in BOOLEAN :
        LET r == send_response(connections, peer[c], ok) IN
        /\ kanata' = handle_client_command(kanata, cur[c], handled)
        /\ resp' = [resp EXCEPT
                      ![c] = @ \o << HandlerCall(cur[c], handled),
                                     Wr(reload_response(HandlerResult(handled)),
                                        "ServerResponse", ok) >>]
        /\ Written(c, nread[c], Wr(reload_response(HandlerResult(handled)), "ServerResponse", ok))
        /\ DomainError(c, ~handled /\ r.ok)
        /\ IF r.ok /\ handled THEN StayAt(c, "wake") ELSE LeaveLoop(c)
    /\ UNCHANGED << peer, closed, quiet, sent_initial_layer_change, cur,
                    wakes, histVars >>
    /\ UNCHANGED << watcherVars, pureVars, threadVars >>

\* Reload, ReloadNext, ReloadPrev, ReloadNum, ReloadFile: one ServerResponse
DispatchReload(c) ==
    /\ Dispatching(c, ReloadTypes)
    /\ \E handled \in BOOLEAN, ok \in BOOLEAN :
        LET r == send_response(connections, peer[c], ok) IN
        /\ kanata' = handle_client_command(kanata, cur[c], handled)
        /\ resp' = [resp EXCEPT
                      ![c] = @ \o << HandlerCall(cur[c], handled),
                                     Wr(reload_response(HandlerResult(handled)),
                                        "ServerResponse", ok) >>]
        /\ Written(c, nread[c], Wr(reload_response(HandlerResult(handled)), "ServerResponse", ok))
        /\ DomainError(c, ~handled /\ r.ok)
        /\ IF r.ok THEN StayAt(c, "wake") ELSE LeaveLoop(c)
    /\ UNCHANGED << peer, closed, quiet, sent_initial_layer_change, cur,
                    wakes, histVars >>
    /\ UNCHANGED << watcherVars, pureVars, threadVars >>

\* wakeup_channel.send(KeyEvent { KEY_RESERVED, WakeUp }); the engine loop drains the channel
SendWakeup(c) ==
    /\ phase[c] = "open"
    /\ pc[c] = "wake"
    /\ wakes' = [wakes EXCEPT ![c] = @ + 1]
    /\ pc' = [pc EXCEPT ![c] = "read"]
    /\ UNCHANGED << kanata, connections, phase, peer, closed, quiet,
                    sent_initial_layer_change, cur, resp, sent, histVars, derr >>
    /\ UNCHANGED << watcherVars, pureVars, threadVars >>

(***************************************************************************)
(* The engine's processing loop.                                           *)
(***************************************************************************)
\* under the engine lock the loop performs a requested reload and clears the flag
EngineReload ==
    /\ kanata.live_reload_requested
    /\ kanata' = do_live_reload(kanata)
    /\ UNCHANGED << connections, connVars >>
    /\ UNCHANGED << watcherVars, pureVars, threadVars >>

Reader(c) ==
    \/ ReadSetSessionMode(c)
    \/ ReadCommand(c)
    \/ ReadMalformed(c)
    \/ ReadEof(c)
    \/ DispatchChangeLayer(c)
    \/ DispatchRequestLayerNames(c)
    \/ DispatchUnknownFakeKey(c)
    \/ DispatchActOnFakeKey(c)
    \/ DispatchSetMouse(c)
    \/ DispatchRequestCurrentLayerInfo(c)
    \/ DispatchRequestCurrentLayerName(c)
    \/ DispatchValidateOversize(c)
    \/ DispatchValidateConfig(c)
    \/ DispatchReload(c)
    \/ SendWakeup(c)

Next ==
    \/ \E c \in Conns : Accept(c)
    \/ \E c \in Conns : ClientClose(c)
    \/ \E c \in Conns : Reader(c)
    \/ EngineReload

Spec == Init /\ [][Next]_vars

\* every reader thread and the engine loop keep being scheduled
FairSpec == Spec /\ \A c \in Conns : WF_vars(Reader(c))

(***************************************************************************)
(* file_watcher.rs: the debouncer's callback, restart_watcher, and the     *)
(* threads that take the engine lock around them.                          *)
(***************************************************************************)
serverVars == << connections, connVars >>

\* Kanata::request_live_reload
request_live_reload(k) == [k EXCEPT !.live_reload_requested = TRUE]

Flag == kanata.live_reload_requested

\* the files a debouncer made by create_debouncer is subscribed to
all_watched_files(cfg, inc) == cfg \cup inc

\* the locals of start_file_watcher
startVars == << spc, debouncer, start_included_files >>

\* a variant that stores the list only once the watcher exists
StartStore_KeepsOldList ==
    /\ spc = "store"
    /\ klock = "free"
    /\ \E inc \in SUBSET IncludeFiles :
        /\ start_included_files' = inc
        /\ UNCHANGED included_files
    /\ spc' = "new"
    /\ UNCHANGED << kanata, serverVars, pureVars, threadVars, klock, file_watcher, file_watcher_restart_requested,
                    live, created, new_debouncer, wpc, batch, epc, cpc, trig, collapsed,
                    dropped, restarts, debouncer >>

\* start_file_watcher: the include files found by discover_include_files are stored in
\* the engine state, under the lock
StartStore ==
    /\ spc = "store"
    /\ klock = "free"
    /\ \E inc \in SUBSET IncludeFiles :
        /\ start_included_files' = inc
        /\ included_files' = inc
    /\ spc' = "new"
    /\ UNCHANGED << kanata, serverVars, pureVars, threadVars, klock, file_watcher, file_watcher_restart_requested,
                    live, created, new_debouncer, wpc, batch, epc, cpc, trig, collapsed,
                    dropped, restarts, debouncer >>

\* create_debouncer: new_debouncer(timeout, callback)?, Ok or Err
StartNew ==
    /\ spc = "new"
    /\ \E ok \in BOOLEAN :
        IF ok
        THEN /\ created' = created + 1
             /\ live' = live \cup {[id |-> created + 1, paths |-> {}]}
             /\ debouncer' = created + 1
             /\ spc' = "watch"
             /\ UNCHANGED start_included_files
        ELSE /\ spc' = "failed"
             /\ start_included_files' = {}
             /\ UNCHANGED << created, live, debouncer >>
    /\ UNCHANGED << kanata, serverVars, pureVars, threadVars, klock, file_watcher, file_watcher_restart_requested,
                    included_files, new_debouncer, wpc, batch, epc, cpc, trig, collapsed,
                    dropped, restarts >>

\* the paths the debouncer of start_file_watcher is subscribed to
Subscribed == UNION {w.paths : w \in {v \in live : v.id = debouncer}}

\* a variant whose error return leaves the debouncer running
StartWatch_LeaksOnFailure ==
    /\ spc = "watch"
    /\ \E path \in all_watched_files(cfg_paths, start_included_files) \ Subscribed, ok \in BOOLEAN :
        IF ok
        THEN /\ live' = {w \in live : w.id # debouncer}
                        \cup {[id |-> debouncer, paths |-> Subscribed \cup {path}]}
             /\ spc' = IF Subscribed \cup {path} = all_watched_files(cfg_paths, start_included_files)
                       THEN "install" ELSE "watch"
             /\ UNCHANGED << debouncer, start_included_files >>
        ELSE /\ debouncer' = NoWatcher
             /\ spc' = "failed"
             /\ start_included_files' = {}
             /\ UNCHANGED live
    /\ UNCHANGED << kanata, serverVars, pureVars, threadVars, klock, file_watcher, file_watcher_restart_requested,
                    included_files, created, new_debouncer, wpc, batch, epc, cpc, trig,
                    collapsed, dropped, restarts >>

\* create_debouncer: debouncer.watcher().watch(path) for the next path; Err(e) returns the
\* error, which drops the debouncer
StartWatch ==
    /\ spc = "watch"
    /\ \E path \in all_watched_files(cfg_paths, start_included_files) \ Subscribed, ok \in BOOLEAN :
        IF ok
        THEN /\ live' = {w \in live : w.id # debouncer}
                        \cup {[id |-> debouncer, paths |-> Subscribed \cup {path}]}
             /\ spc' = IF Subscribed \cup {path} = all_watched_files(cfg_paths, start_included_files)
                       THEN "install" ELSE "watch"
             /\ UNCHANGED << debouncer, start_included_files >>
        ELSE /\ live' = {w \in live : w.id # debouncer}
             /\ debouncer' = NoWatcher
             /\ spc' = "failed"
             /\ start_included_files' = {}
    /\ UNCHANGED << kanata, serverVars, pureVars, threadVars, klock, file_watcher, file_watcher_restart_requested,
                    included_files, created, new_debouncer, wpc, batch, epc, cpc, trig,
                    collapsed, dropped, restarts >>

\* start_file_watcher: k.file_watcher = Some(debouncer), under the lock, which drops a
\* debouncer that was installed before; Ok(())
StartInstall ==
    /\ spc = "install"
    /\ klock = "free"
    /\ file_watcher' = debouncer
    /\ live' = {w \in live : w.id = debouncer \/ w.id # file_watcher}
    /\ debouncer' = NoWatcher
    /\ start_included_files' = {}
    /\ spc' = "done"
    /\ UNCHANGED << kanata, serverVars, pureVars, threadVars, klock, file_watcher_restart_requested,
                    included_files, created, new_debouncer, wpc, batch, epc, cpc, trig,
                    collapsed, dropped, restarts >>

\* the debouncer delivers a batch of events to the callback of a watcher that exists
WatcherBatch ==
    /\ wpc = "idle"
    /\ batch = << >>
    /\ live # {}
    /\ batch' \in Batches
    /\ UNCHANGED << kanata, serverVars, pureVars, threadVars, startVars, klock, file_watcher, file_watcher_restart_requested,
                    included_files, live, created, new_debouncer, wpc, epc, cpc, trig,
                    collapsed, dropped, restarts >>

\* for event in events: the three checks; an event that passes none is ignored
WatcherEvent ==
    /\ wpc = "idle"
    /\ batch # << >>
    /\ batch' = Tail(batch)
    /\ wpc' = IF Matched(Head(batch)) THEN "try" ELSE "idle"
    /\ UNCHANGED << kanata, serverVars, pureVars, threadVars, startVars, klock, file_watcher, file_watcher_restart_requested,
                    included_files, live, created, new_debouncer, epc, cpc, trig,
                    collapsed, dropped, restarts >>

\* a variant that waits for the lock, as kanata_arc.lock() would
WatcherTryLock_Blocking ==
    /\ wpc = "try"
    /\ klock = "free"
    /\ klock' = "watcher"
    /\ wpc' = "locked"
    /\ UNCHANGED << kanata, serverVars, pureVars, threadVars, startVars, file_watcher, file_watcher_restart_requested,
                    included_files, live, created, new_debouncer, batch, epc, cpc, trig,
                    collapsed, dropped, restarts >>

\* kanata_arc_clone.try_lock(): Some(guard) when the lock is free, else a logged warning
WatcherTryLock ==
    /\ wpc = "try"
    /\ IF klock = "free"
       THEN /\ klock' = "watcher"
            /\ wpc' = "locked"
            /\ UNCHANGED dropped
       ELSE /\ wpc' = "idle"
            /\ dropped' = IF dropped < MaxDropped THEN dropped + 1 ELSE dropped
            /\ UNCHANGED klock
    /\ UNCHANGED << kanata, serverVars, pureVars, threadVars, startVars, file_watcher, file_watcher_restart_requested,
                    included_files, live, created, new_debouncer, batch, epc, cpc, trig,
                    collapsed, restarts >>

\* a variant in which a trigger flips the flag
WatcherSetFlag_Toggle ==
    /\ wpc = "locked"
    /\ kanata' = [kanata EXCEPT !.live_reload_requested = ~@]
    /\ trig' = IF trig < MaxTrig THEN trig + 1 ELSE trig
    /\ klock' = "free"
    /\ wpc' = "idle"
    /\ UNCHANGED << serverVars, pureVars, threadVars, startVars, file_watcher, file_watcher_restart_requested,
                    included_files, live, created, new_debouncer, batch, epc, cpc,
                    collapsed, dropped, restarts >>

\* kanata.request_live_reload() under the guard, which is dropped at the end of the block
WatcherSetFlag ==
    /\ wpc = "locked"
    /\ kanata' = request_live_reload(kanata)
    /\ trig' = IF trig < MaxTrig THEN trig + 1 ELSE trig
    /\ klock' = "free"
    /\ wpc' = "idle"
    /\ UNCHANGED << serverVars, pureVars, threadVars, startVars, file_watcher, file_watcher_restart_requested,
                    included_files, live, created, new_debouncer, batch, epc, cpc,
                    collapsed, dropped, restarts >>

\* a connection thread at a reload command: kanata.lock() waits for the lock
ConnLock ==
    /\ cpc = "idle"
    /\ klock = "free"
    /\ klock' = "conn"
    /\ cpc' = "locked"
    /\ UNCHANGED << kanata, serverVars, pureVars, threadVars, startVars, file_watcher, file_watcher_restart_requested,
                    included_files, live, created, new_debouncer, wpc, batch, epc, trig,
                    collapsed, dropped, restarts >>

\* handle_client_command(reload_cmd) under the lock; the guard is dropped after the match
ConnReload ==
    /\ cpc = "locked"
    /\ \E handled \in BOOLEAN :
        /\ kanata' = handle_client_command(kanata, [type |-> "Reload"], handled)
        /\ trig' = IF handled /\ trig < MaxTrig THEN trig + 1 ELSE trig
    /\ klock' = "free"
    /\ cpc' = "idle"
    /\ UNCHANGED << serverVars, pureVars, threadVars, startVars, file_watcher, file_watcher_restart_requested,
                    included_files, live, created, new_debouncer, wpc, batch, epc,
                    collapsed, dropped, restarts >>

\* the engine loop takes the lock for one round of its processing
EngineLock ==
    /\ spc \in {"done", "failed"}
    /\ epc = "idle"
    /\ klock = "free"
    /\ klock' = "engine"
    /\ epc' = "locked"
    /\ UNCHANGED << kanata, serverVars, pureVars, threadVars, startVars, file_watcher, file_watcher_restart_requested,
                    included_files, live, created, new_debouncer, wpc, batch, cpc, trig,
                    collapsed, dropped, restarts >>

\* the loop finds the flag set: it reloads, clears the flag, takes the include files of
\* the new configuration and asks for a restart of the watcher when they have changed
EngineLoopReload ==
    /\ epc = "locked"
    /\ Flag
    /\ kanata' = do_live_reload(kanata)
    /\ collapsed' = trig
    /\ trig' = 0
    /\ \E inc \in SUBSET IncludeFiles :
        /\ restarts = MaxRestarts => inc = included_files
        /\ included_files' = inc
        /\ file_watcher_restart_requested' = (inc # included_files)
        /\ epc' = IF inc # included_files THEN "restart" ELSE "locked"
    /\ UNCHANGED << serverVars, pureVars, threadVars, startVars, klock, file_watcher, live, created, new_debouncer, wpc,
                    batch, cpc, dropped, restarts >>

\* the loop ends its round and releases the lock
EngineUnlock ==
    /\ epc = "locked"
    /\ ~Flag
    /\ klock' = "free"
    /\ epc' = "idle"
    /\ UNCHANGED << kanata, serverVars, pureVars, threadVars, startVars, file_watcher, file_watcher_restart_requested,
                    included_files, live, created, new_debouncer, wpc, batch, cpc, trig,
                    collapsed, dropped, restarts >>

\* a variant that leaves the old debouncer running
RestartDrop_KeepsOld ==
    /\ epc = "restart"
    /\ file_watcher' = NoWatcher
    /\ epc' = "create"
    /\ UNCHANGED << kanata, serverVars, pureVars, threadVars, startVars, klock, file_watcher_restart_requested, live,
                    included_files, created, new_debouncer, wpc, batch, cpc, trig,
                    collapsed, dropped, restarts >>

\* restart_watcher: k_locked.file_watcher = None drops the old debouncer
RestartDrop ==
    /\ epc = "restart"
    /\ file_watcher' = NoWatcher
    /\ live' = {w \in live : w.id # file_watcher}
    /\ epc' = "create"
    /\ UNCHANGED << kanata, serverVars, pureVars, threadVars, startVars, klock, file_watcher_restart_requested,
                    included_files, created, new_debouncer, wpc, batch, cpc, trig,
                    collapsed, dropped, restarts >>

\* restart_watcher: create_debouncer(k_ref, &cfg_paths, &included_files), Ok or Err
RestartCreate ==
    /\ epc = "create"
    /\ \E ok \in BOOLEAN :
        IF ok
        THEN /\ created' = created + 1
             /\ live' = live \cup {[id |-> created + 1,
                                    paths |-> all_watched_files(cfg_paths, included_files)]}
             /\ new_debouncer' = created + 1
        ELSE /\ new_debouncer' = NoWatcher
             /\ UNCHANGED << created, live >>
    /\ epc' = "install"
    /\ UNCHANGED << kanata, serverVars, pureVars, threadVars, startVars, klock, file_watcher, file_watcher_restart_requested,
                    included_files, wpc, batch, cpc, trig, collapsed, dropped, restarts >>

\* a variant that clears the restart-requested flag only when the watcher was created
RestartInstall_FlagStaysOnFailure ==
    /\ epc = "install"
    /\ file_watcher' = new_debouncer
    /\ file_watcher_restart_requested' = (new_debouncer = NoWatcher)
    /\ new_debouncer' = NoWatcher
    /\ restarts' = restarts + 1
    /\ epc' = "locked"
    /\ UNCHANGED << kanata, serverVars, pureVars, threadVars, startVars, klock, included_files, live, created, wpc, batch,
                    cpc, trig, collapsed, dropped >>

\* restart_watcher: the new handle (or None) is installed and the request is cleared
RestartInstall ==
    /\ epc = "install"
    /\ file_watcher' = new_debouncer
    /\ file_watcher_restart_requested' = FALSE
    /\ new_debouncer' = NoWatcher
    /\ restarts' = restarts + 1
    /\ epc' = "locked"
    /\ UNCHANGED << kanata, serverVars, pureVars, threadVars, startVars, klock, included_files, live, created, wpc, batch,
                    cpc, trig, collapsed, dropped >>

\* the engine loop takes the lock while start_file_watcher is between two of its steps
EngineLockDuringStart ==
    /\ spc \in {"new", "watch", "install"}
    /\ epc = "idle"
    /\ klock = "free"
    /\ klock' = "engine"
    /\ epc' = "locked"
    /\ UNCHANGED << kanata, serverVars, pureVars, threadVars, startVars, file_watcher, file_watcher_restart_requested,
                    included_files, live, created, new_debouncer, wpc, batch, cpc, trig,
                    collapsed, dropped, restarts >>

WatcherNext ==
    \/ StartStore
    \/ StartNew
    \/ StartWatch
    \/ StartInstall
    \/ WatcherBatch
    \/ WatcherEvent
    \/ WatcherTryLock
    \/ WatcherSetFlag
    \/ ConnLock
    \/ ConnReload
    \/ EngineLock
    \/ EngineLoopReload
    \/ EngineUnlock
    \/ RestartDrop
    \/ RestartCreate
    \/ RestartInstall

\* the watcher, one connection thread and the engine loop around the engine lock
WatcherSpec == Init /\ [][WatcherNext]_vars

StartRaceNext ==
    \/ StartStore
    \/ StartNew
    \/ StartWatch
    \/ StartInstall
    \/ ConnLock
    \/ ConnReload
    \/ EngineLock
    \/ EngineLockDuringStart
    \/ EngineLoopReload
    \/ EngineUnlock
    \/ RestartDrop
    \/ RestartCreate
    \/ RestartInstall

\* start_file_watcher on one thread while the engine loop and a connection thread run
StartRaceSpec == Init /\ [][StartRaceNext]_vars

(***************************************************************************)
(* Paths and the file system, as file_watcher.rs uses them (std::path,     *)
(* std::fs).                                                               *)
(***************************************************************************)
\* a path: absolute or relative, and its components
Path(abs, parts) == [abs |-> abs, parts |-> parts]

\* Path::parent: the path without its last component; None for "/" and for ""
parent(p) ==
    IF p.parts = << >> THEN [some |-> FALSE]
    ELSE [some |-> TRUE, path |-> Path(p.abs, SubSeq(p.parts, 1, Len(p.parts) - 1))]

\* Path::file_name: the last component, unless it is ".."
file_name(p) ==
    IF p.parts = << >> \/ p.parts[Len(p.parts)] = ".." THEN [some |-> FALSE]
    ELSE [some |-> TRUE, name |-> p.parts[Len(p.parts)]]

\* Path::join: an absolute argument replaces the path
join(a, b) == IF b.abs THEN b ELSE Path(a.abs, a.parts \o b.parts)

\* Path::is_absolute
is_absolute(p) == p.abs

RECURSIVE NormParts(_, _)
NormParts(acc, rest) ==
    IF rest = << >> THEN acc
    ELSE NormParts(IF Head(rest) = ".."
                   THEN (IF acc = << >> THEN acc ELSE SubSeq(acc, 1, Len(acc) - 1))
                   ELSE Append(acc, Head(rest)),
                   Tail(rest))

\* where a path leads: made absolute from the working directory, ".." resolved, a
\* symbolic link followed
Resolve(f, p) ==
    LET a == join(f.cwd, p)
        n == Path(TRUE, NormParts(<< >>, a.parts))
    IN  IF \E l \in f.links : l.from = n
        THEN (CHOOSE l \in f.links : l.from = n).to
        ELSE n

\* Path::exists and Path::is_dir
exists(f, p) == Resolve(f, p) \in f.dirs \cup f.files
is_dir(f, p) == Resolve(f, p) \in f.dirs

\* Path::canonicalize: Err for a path that leads to nothing
canonicalize(f, p) ==
    IF exists(f, p) THEN [ok |-> TRUE, path |-> Resolve(f, p)] ELSE [ok |-> FALSE]

(***************************************************************************)
(* file_watcher.rs: the matching of an event in the debouncer's callback   *)
(***************************************************************************)
\* canonicalize().or_else(|_| current_dir().map(|pwd| pwd.join(path)))
absolute_or_joined(f, p) ==
    IF canonicalize(f, p).ok THEN canonicalize(f, p).path ELSE join(f.cwd, p)

\* the closure of all_watched_files.iter().any(..) for one watched path
watched_path_matches(f, event, watched_path) ==
    \/ event = watched_path
    \/ /\ canonicalize(f, event).ok
       /\ canonicalize(f, watched_path).ok
       /\ canonicalize(f, event).path = canonicalize(f, watched_path).path
    \/ absolute_or_joined(f, event) = absolute_or_joined(f, watched_path)

is_watched_file(f, event, watched) ==
    \E watched_path \in watched : watched_path_matches(f, event, watched_path)

\* a variant that asks for the same directory only
parent_dir_match_AnyName(f, event, watched) ==
    /\ parent(event).some
    /\ \E wf \in watched : parent(wf) = parent(event)

parent_dir_match(f, event, watched) ==
    /\ parent(event).some
    /\ \E wf \in watched :
        /\ parent(wf) = parent(event)
        /\ file_name(wf).some
        /\ file_name(event).some
        /\ file_name(wf) = file_name(event)

\* a variant that takes any directory event for a match
dir_is_parent_of_watched_AnyDir(f, event, watched) == is_dir(f, event)

\* a variant that asks for the watched file to be there
dir_is_parent_of_watched_FilePresent(f, event, watched) ==
    /\ is_dir(f, event)
    /\ \E wf \in watched : parent(wf).some /\ parent(wf).path = event /\ exists(f, wf)

dir_is_parent_of_watched(f, event, watched) ==
    /\ is_dir(f, event)
    /\ \E wf \in watched : parent(wf).some /\ parent(wf).path = event

\* the branch of the callback an event takes
EventKind(f, event, watched) ==
    IF is_watched_file(f, event, watched) THEN "watched"
    ELSE IF parent_dir_match(f, event, watched) THEN "parent_dir"
    ELSE IF dir_is_parent_of_watched(f, event, watched) THEN "dir_parent"
    ELSE "other"

\* the file systems, watched files and events the matching is checked on
DirA == Path(TRUE, << "a" >>)
DirB == Path(TRUE, << "b" >>)
CfgAbs == Path(TRUE, << "a", "cfg.kbd" >>)
CfgRel == Path(FALSE, << "cfg.kbd" >>)
CfgLink == Path(TRUE, << "b", "lnk.kbd" >>)
CfgDotDot == Path(TRUE, << "a", "..", "a", "cfg.kbd" >>)
OtherFile == Path(TRUE, << "a", "other.kbd" >>)
OtherDirCfg == Path(TRUE, << "b", "cfg.kbd" >>)
CfgAlias == Path(TRUE, << "a", "alias.kbd" >>)

MatchFs ==
    { [cwd |-> d, dirs |-> {DirA, DirB}, files |-> fl,
       links |-> {[from |-> CfgLink, to |-> CfgAbs], [from |-> CfgAlias, to |-> CfgAbs]}] :
        d \in {DirA, DirB}, fl \in {{CfgAbs, OtherFile}, {OtherFile}} }

WatchedSets == (SUBSET {CfgAbs, CfgRel, CfgLink}) \ {{}}
EventPaths ==
    {CfgAbs, CfgRel, CfgLink, CfgDotDot, OtherFile, OtherDirCfg, CfgAlias, DirA, DirB}

\* what kanata_arc_clone.try_lock() gives the callback: the guard, or nothing while
\* another thread holds the lock
TryLockResults == {"Some", "None"}

\* the callback is called with one event, for a watcher made for all_watched_files
MatchInit ==
    /\ InitSystem
    /\ fs \in MatchFs
    /\ call \in [fn : {"callback"}, event : EventPaths, all_watched_files : WatchedSets,
                  try_lock : TryLockResults]
    /\ ret = NoRet

CallbackPending == call.fn = "callback" /\ ~ret.done

\* the event passes one of the checks and the lock is free: the reload is requested
CallbackTrigger ==
    /\ CallbackPending
    /\ Matched(EventKind(fs, call.event, call.all_watched_files))
    /\ call.try_lock = "Some"
    /\ ret' = [done |-> TRUE, kind |-> EventKind(fs, call.event, call.all_watched_files),
               requested |-> TRUE]
    /\ kanata' = request_live_reload(kanata)
    /\ UNCHANGED << serverVars, watcherVars, threadVars, fs, call >>

\* the event passes one of the checks while the lock is held: a warning is logged
CallbackDropped ==
    /\ CallbackPending
    /\ Matched(EventKind(fs, call.event, call.all_watched_files))
    /\ call.try_lock = "None"
    /\ ret' = [done |-> TRUE, kind |-> EventKind(fs, call.event, call.all_watched_files),
               requested |-> FALSE]
    /\ UNCHANGED << kanata, serverVars, watcherVars, threadVars, fs, call >>

\* the event passes none of the checks: it is ignored
CallbackIgnore ==
    /\ CallbackPending
    /\ ~Matched(EventKind(fs, call.event, call.all_watched_files))
    /\ ret' = [done |-> TRUE, kind |-> "other", requested |-> FALSE]
    /\ UNCHANGED << kanata, serverVars, watcherVars, threadVars, fs, call >>

MatchNext == CallbackTrigger \/ CallbackDropped \/ CallbackIgnore

\* the callback's matching, over the events, watched sets and file systems above
MatchSpec == MatchInit /\ [][MatchNext]_vars

(***************************************************************************)
(* file_watcher.rs: discover_include_files.  A file's text is a sequence   *)
(* of lines, a line a sequence of tokens: a blank, a quote, the word       *)
(* "(include", a slash, a file or directory name, or other text.           *)
(***************************************************************************)
Blank == " "
Quote == "\""
Slash == "/"
IncludeWord == "(include"

RECURSIVE trim_start(_)
trim_start(line) ==
    IF line # << >> /\ Head(line) = Blank THEN trim_start(Tail(line)) ELSE line

RECURSIVE trim_end(_)
trim_end(line) ==
    IF line # << >> /\ line[Len(line)] = Blank
    THEN trim_end(SubSeq(line, 1, Len(line) - 1)) ELSE line

\* str::trim
trim(line) == trim_end(trim_start(line))

\* str::find('"'): the index of the first quote, 0 for None
find_quote(line) ==
    IF \E i \in 1..Len(line) : line[i] = Quote
    THEN CHOOSE i \in 1..Len(line) : line[i] = Quote /\ \A j \in 1..(i - 1) : line[j] # Quote
    ELSE 0

\* PathBuf::from(&str): absolute when the text starts with a slash; the components are
\* what stands between the slashes
PathBuf_from(text) ==
    Path(text # << >> /\ Head(text) = Slash, SelectSeq(text, LAMBDA t : t # Slash))

\* a variant that pushes the path of a directive without looking whether it exists
line_include_KeepsMissing(f, cfg_path, line) ==
    LET trimmed == trim(line)
        start == find_quote(trimmed)
        rest == SubSeq(trimmed, start + 1, Len(trimmed))
        end == find_quote(rest)
        path == PathBuf_from(SubSeq(rest, 1, end - 1))
        resolved == IF ~is_absolute(path) /\ parent(cfg_path).some
                    THEN join(parent(cfg_path).path, path) ELSE path
    IN  IF trimmed # << >> /\ Head(trimmed) = IncludeWord /\ start # 0 /\ end # 0
        THEN << resolved >>
        ELSE << >>

\* the body of `for line in content.lines()`: what one line adds to include_files
line_include(f, cfg_path, line) ==
    LET trimmed == trim(line)
        start == find_quote(trimmed)
        rest == SubSeq(trimmed, start + 1, Len(trimmed))
        end == find_quote(rest)
        path == PathBuf_from(SubSeq(rest, 1, end - 1))
        resolved == IF ~is_absolute(path) /\ parent(cfg_path).some
                    THEN join(parent(cfg_path).path, path) ELSE path
    IN  IF trimmed # << >> /\ Head(trimmed) = IncludeWord /\ start # 0 /\ end # 0
           /\ exists(f, resolved)
        THEN << resolved >>
        ELSE << >>

\* fs::read_to_string
read_to_string(f, p) ==
    IF Resolve(f, p) \in f.files \ f.unreadable
    THEN [ok |-> TRUE, content |-> f.content[Resolve(f, p)]]
    ELSE [ok |-> FALSE]

RECURSIVE lines_includes(_, _, _)
lines_includes(f, cfg_path, lines) ==
    IF lines = << >> THEN << >>
    ELSE line_include(f, cfg_path, Head(lines)) \o lines_includes(f, cfg_path, Tail(lines))

RECURSIVE Flatten(_)
Flatten(ss) == IF ss = << >> THEN << >> ELSE Head(ss) \o Flatten(Tail(ss))

\* a variant that also reads the files it discovers
file_includes_Recursive(f, cfg_path) ==
    IF read_to_string(f, cfg_path).ok
    THEN LET found == lines_includes(f, cfg_path, read_to_string(f, cfg_path).content)
         IN  found \o Flatten([i \in 1..Len(found) |->
                 IF read_to_string(f, found[i]).ok
                 THEN lines_includes(f, found[i], read_to_string(f, found[i]).content)
                 ELSE << >>])
    ELSE << >>

\* the body of `for cfg_path in cfg_paths`: what one config file adds
file_includes(f, cfg_path) ==
    IF read_to_string(f, cfg_path).ok
    THEN lines_includes(f, cfg_path, read_to_string(f, cfg_path).content)
    ELSE << >>

\* a variant that gives up at the first file it cannot read
discover_include_files_StopsAtUnreadable(f, paths) ==
    LET bad == {i \in 1..Len(paths) : ~read_to_string(f, paths[i]).ok}
        n == IF bad = {} THEN Len(paths) ELSE (CHOOSE i \in bad : \A k \in bad : i <= k) - 1
    IN  Flatten([i \in 1..n |-> file_includes(f, paths[i])])

\* include_files after `for cfg_path in cfg_paths`
discover_include_files(f, paths) ==
    Flatten([i \in 1..Len(paths) |-> file_includes(f, paths[i])])

\* the files and texts discovery is checked on
MaxCfgPaths == 3
CfgTwo == Path(TRUE, << "b", "two.kbd" >>)
CfgLocked == Path(TRUE, << "a", "locked.kbd" >>)
CfgGone == Path(TRUE, << "a", "gone.kbd" >>)
SubA == Path(TRUE, << "a", "sub.kbd" >>)
SubB == Path(TRUE, << "b", "sub.kbd" >>)
DeepA == Path(TRUE, << "a", "deep.kbd" >>)
AbsB == Path(TRUE, << "b", "abs.kbd" >>)
MissingB == Path(TRUE, << "b", "missing.kbd" >>)

Include(text) == << IncludeWord, Blank, Quote >> \o text \o << Quote, ")" >>

\* /a/cfg.kbd
CfgText == << Include(<< "sub.kbd" >>) >>
\* /b/two.kbd
TwoText ==
    << << "(defcfg", ")" >>,
       << Blank, Blank >> \o Include(<< "sub.kbd" >>) \o << Blank >>,
       << ";;", Blank >> \o Include(<< "deep.kbd" >>),
       Include(<< "missing.kbd" >>),
       << IncludeWord, Blank, "sub.kbd", ")" >>,
       << IncludeWord, Blank, Quote, "sub.kbd", ")" >>,
       << >>,
       Include(<< Slash, "b", Slash, "abs.kbd" >>) >>
\* /a/sub.kbd and /b/sub.kbd
SubText == << Include(<< "deep.kbd" >>) >>
\* /a/locked.kbd
LockedText == << Include(<< "sub.kbd" >>) >>

DiscoverFs ==
    { [cwd |-> DirA, dirs |-> {DirA, DirB},
       files |-> {CfgAbs, CfgTwo, CfgLocked, DeepA, AbsB} \cup some,
       links |-> {},
       unreadable |-> {CfgLocked},
       content |-> (CfgAbs :> CfgText) @@ (CfgTwo :> TwoText) @@ (SubA :> SubText)
                   @@ (SubB :> SubText) @@ (CfgLocked :> LockedText)
                   @@ (DeepA :> << >>) @@ (AbsB :> << >>)] :
        some \in SUBSET {SubA, SubB} }

CfgInputs == {CfgAbs, CfgRel, CfgTwo, CfgLocked, CfgGone, SubA}

DiscoverInit ==
    /\ InitSystem
    /\ fs \in DiscoverFs
    /\ call \in [fn : {"discover_include_files"}, cfg_paths : SeqsUpTo(CfgInputs, MaxCfgPaths)]
    /\ ret = NoRet

Range(s) == {s[i] : i \in 1..Len(s)}

\* start_file_watcher: discover_include_files(&cfg_paths) returns
Discover ==
    /\ call.fn = "discover_include_files"
    /\ ~ret.done
    /\ ret' = [done |-> TRUE, include_files |-> discover_include_files(fs, call.cfg_paths)]
    /\ UNCHANGED << kanata, serverVars, watcherVars, threadVars, fs, call >>

\* start_file_watcher after the discovery, when nothing fails: the list is stored, a
\* debouncer is made for the config files and the discovered files, and installed
StartDiscovered ==
    /\ ret.done
    /\ call.fn = "discover_include_files"
    /\ file_watcher = NoWatcher
    /\ included_files' = Range(ret.include_files)
    /\ created' = created + 1
    /\ live' = {[id |-> created + 1,
                 paths |-> all_watched_files(Range(call.cfg_paths), Range(ret.include_files))]}
    /\ file_watcher' = created + 1
    /\ UNCHANGED << kanata, serverVars, pureVars, threadVars, klock, file_watcher_restart_requested,
                    new_debouncer, wpc, batch, epc, cpc, trig, collapsed, dropped, restarts,
                    startVars >>

\* a reload after which the engine has stored a fresh discovery and asked for a restart,
\* and restart_watcher, when nothing fails: the old debouncer is dropped, a new one is
\* made for the config files and k.included_files, and installed
RestartDiscovered ==
    /\ file_watcher # NoWatcher
    /\ restarts < MaxRestarts
    /\ call.fn = "discover_include_files"
    /\ \E f \in DiscoverFs :
        /\ fs' = f
        /\ included_files' = Range(discover_include_files(f, call.cfg_paths))
        /\ live' = {[id |-> created + 1,
                     paths |-> all_watched_files(Range(call.cfg_paths),
                                   Range(discover_include_files(f, call.cfg_paths)))]}
    /\ created' = created + 1
    /\ file_watcher' = created + 1
    /\ restarts' = restarts + 1
    /\ UNCHANGED << kanata, serverVars, threadVars, call, ret, klock, file_watcher_restart_requested,
                    new_debouncer, wpc, batch, epc, cpc, trig, collapsed, dropped,
                    startVars >>

DiscoverNext == Discover \/ StartDiscovered \/ RestartDiscovered

\* discover_include_files over the config lists and file systems above, and the
\* watchers made from its result
DiscoverSpec == DiscoverInit /\ [][DiscoverNext]_vars

(***************************************************************************)
(* tcp_server.rs at the grain of its locks: the accept thread and the      *)
(* reader threads with the engine lock, the registry lock and the socket   *)
(* writes as steps of their own.  A reader at "push_write", "err_write" or *)
(* "write" is inside stream.write_all; the write returns only when the     *)
(* client takes the bytes or the stream fails.                             *)
(***************************************************************************)
logVars == << hist, lcw, resp, cmds, wakes, derr, reqs, sent >>

watcherRest == << file_watcher, file_watcher_restart_requested, included_files, live,
                  created, new_debouncer, wpc, batch, cpc, trig, collapsed, dropped,
                  restarts, spc, debouncer, start_included_files >>

\* what no step of a reader thread changes
ReaderFrame == UNCHANGED << peer, closed, logVars, epc, watcherRest, pureVars, undrained,
                            listening >>

\* the capacity of the wake-up channel
WakeupCapacity == 1

\* the items the readers are given
ThreadMessages ==
    {m \in ClientMessage :
        \/ m.type \in {"SetSessionMode", "RequestCurrentLayerName", "Reload"}
        \/ m.type = "ChangeLayer" /\ m.new = "nav"
        \/ m.type = "ActOnFakeKey" /\ m.action = "Tap"}
    \cup {Malformed}

WritePoints == {"push_write", "err_write", "write"}

\* listener.incoming() yields Ok(stream): as Accept, the insert under the registry lock
AcceptConn(c) ==
    /\ listening
    /\ rlock = "free"
    /\ Accept(c)

\* listener.incoming() yields Err(_): logged, the loop goes on
AcceptError ==
    /\ listening
    /\ UNCHANGED vars

\* peer_addr() or try_clone() fails for an incoming connection: expect() panics in the
\* accept thread; after the first clone the entry is already in the registry
AcceptPanics(c) ==
    /\ listening
    /\ phase[c] = "new"
    /\ \A d \in Conns : Before(d, c) => phase[d] # "new"
    /\ \E at \in {"peer_addr", "clone_for_registry", "clone_for_reader"} :
        IF at = "clone_for_reader"
        THEN /\ rlock = "free"
             /\ \E a \in Addrs :
                 /\ AddrFree(a)
                 /\ connections' = [connections EXCEPT ![a] = c]
                 /\ peer' = [peer EXCEPT ![c] = a]
        ELSE UNCHANGED << connections, peer >>
    /\ phase' = [phase EXCEPT ![c] = "failed"]
    /\ listening' = FALSE
    /\ UNCHANGED << kanata, closed, pc, quiet, sent_initial_layer_change, cur, nread,
                    logVars, watcherVars, pureVars, rlock, undrained, wakeup_channel >>

\* the client stops reading its socket, or reads it again
ClientStalls(c) ==
    /\ phase[c] = "open"
    /\ c \notin undrained
    /\ undrained' = undrained \cup {c}
    /\ UNCHANGED << kanata, serverVars, watcherVars, pureVars, rlock, listening,
                    wakeup_channel >>

ClientDrains(c) ==
    /\ c \in undrained
    /\ undrained' = undrained \ {c}
    /\ UNCHANGED << kanata, serverVars, watcherVars, pureVars, rlock, listening,
                    wakeup_channel >>

\* for v in reader: the next item; SetSessionMode sets quiet; then the initial push when
\* it is due, the dispatch, or for bytes that are no message the error reply
TakeItem(c) ==
    /\ CanRead(c)
    /\ \E m \in ThreadMessages :
        /\ cur' = [cur EXCEPT ![c] = m]
        /\ nread' = [nread EXCEPT ![c] = @ + 1]
        /\ IF m = Malformed
           THEN /\ pc' = [pc EXCEPT ![c] = "write"]
                /\ UNCHANGED quiet
           ELSE IF m.type = "SetSessionMode"
           THEN /\ quiet' = [quiet EXCEPT ![c] = m.quiet]
                /\ pc' = [pc EXCEPT ![c] =
                            IF SessionModeNeedsPush(m.quiet, sent_initial_layer_change[c])
                            THEN "push_lock" ELSE "read"]
           ELSE /\ UNCHANGED quiet
                /\ pc' = [pc EXCEPT ![c] =
                            IF CommandNeedsPush(quiet[c], sent_initial_layer_change[c])
                            THEN "push_lock" ELSE "dispatch"]
    /\ UNCHANGED << kanata, connections, phase, sent_initial_layer_change, klock, rlock,
                    hist, lcw, resp, cmds, wakes, derr, reqs, sent >>
    /\ UNCHANGED << peer, closed, epc, watcherRest, pureVars, undrained, listening,
                    wakeup_channel >>

\* let k = kanata.lock() before the initial LayerChange
PushLock(c) ==
    /\ phase[c] = "open"
    /\ pc[c] = "push_lock"
    /\ klock = "free"
    /\ klock' = c
    /\ pc' = [pc EXCEPT ![c] = "push_write"]
    /\ UNCHANGED << kanata, connections, phase, quiet, sent_initial_layer_change, cur,
                    nread, rlock >>
    /\ ReaderFrame /\ UNCHANGED wakeup_channel

\* stream.write_all of the initial LayerChange returns, k still alive: on Ok the block
\* ends and k is dropped; on Err the removal follows
PushWrite(c) ==
    /\ phase[c] = "open"
    /\ pc[c] = "push_write"
    /\ c \notin undrained
    /\ \E ok \in BOOLEAN :
        IF ok
        THEN /\ sent_initial_layer_change' = [sent_initial_layer_change EXCEPT ![c] = TRUE]
             /\ klock' = "free"
             /\ pc' = [pc EXCEPT ![c] =
                         IF cur[c].type = "SetSessionMode" THEN "read" ELSE "dispatch"]
        ELSE /\ pc' = [pc EXCEPT ![c] = "remove"]
             /\ UNCHANGED << sent_initial_layer_change, klock >>
    /\ UNCHANGED << kanata, connections, phase, quiet, cur, nread, rlock >>
    /\ ReaderFrame /\ UNCHANGED wakeup_channel

\* kanata.lock() of a match arm
DispatchLock(c) ==
    /\ phase[c] = "open"
    /\ pc[c] = "dispatch"
    /\ klock = "free"
    /\ klock' = c
    /\ pc' = [pc EXCEPT ![c] = "locked"]
    /\ UNCHANGED << kanata, connections, phase, quiet, sent_initial_layer_change, cur,
                    nread, rlock >>
    /\ ReaderFrame /\ UNCHANGED wakeup_channel

\* a variant whose ChangeLayer arm keeps its guard until the end of the loop body
UnderLock_KeepsGuard(c) ==
    /\ phase[c] = "open"
    /\ pc[c] = "locked"
    /\ CASE cur[c].type = "ChangeLayer" ->
                /\ kanata' = change_layer(kanata, cur[c].new)
                /\ UNCHANGED klock
                /\ pc' = [pc EXCEPT ![c] = "wake"]
         [] cur[c].type = "ActOnFakeKey" /\ cur[c].name \in DOMAIN virtual_keys ->
                /\ kanata' = handle_fakekey_action(kanata, cur[c].action)
                /\ klock' = "free"
                /\ pc' = [pc EXCEPT ![c] = "wake"]
         [] cur[c].type = "ActOnFakeKey" /\ cur[c].name \notin DOMAIN virtual_keys ->
                /\ pc' = [pc EXCEPT ![c] = "err_write"]
                /\ UNCHANGED << kanata, klock >>
         [] cur[c].type = "RequestCurrentLayerName" ->
                /\ klock' = "free"
                /\ pc' = [pc EXCEPT ![c] = "write"]
                /\ UNCHANGED kanata
         [] cur[c].type = "Reload" ->
                /\ \E handled \in BOOLEAN :
                    kanata' = handle_client_command(kanata, cur[c], handled)
                /\ klock' = "free"
                /\ pc' = [pc EXCEPT ![c] = "write"]
    /\ UNCHANGED << connections, phase, quiet, sent_initial_layer_change, cur, nread, rlock >>
    /\ ReaderFrame /\ UNCHANGED wakeup_channel

\* the arm's work on the engine state; the guard is dropped before the reply is written,
\* except for an unknown fake key, whose Error is written with k alive
UnderLock(c) ==
    /\ phase[c] = "open"
    /\ pc[c] = "locked"
    /\ CASE cur[c].type = "ChangeLayer" ->
                /\ kanata' = change_layer(kanata, cur[c].new)
                /\ klock' = "free"
                /\ pc' = [pc EXCEPT ![c] = "wake"]
         [] cur[c].type = "ActOnFakeKey" /\ cur[c].name \in DOMAIN virtual_keys ->
                /\ kanata' = handle_fakekey_action(kanata, cur[c].action)
                /\ klock' = "free"
                /\ pc' = [pc EXCEPT ![c] = "wake"]
         [] cur[c].type = "ActOnFakeKey" /\ cur[c].name \notin DOMAIN virtual_keys ->
                /\ pc' = [pc EXCEPT ![c] = "err_write"]
                /\ UNCHANGED << kanata, klock >>
         [] cur[c].type = "RequestCurrentLayerName" ->
                /\ klock' = "free"
                /\ pc' = [pc EXCEPT ![c] = "write"]
                /\ UNCHANGED kanata
         [] cur[c].type = "Reload" ->
                /\ \E handled \in BOOLEAN :
                    kanata' = handle_client_command(kanata, cur[c], handled)
                /\ klock' = "free"
                /\ pc' = [pc EXCEPT ![c] = "write"]
    /\ UNCHANGED << connections, phase, quiet, sent_initial_layer_change, cur, nread, rlock >>
    /\ ReaderFrame /\ UNCHANGED wakeup_channel

\* stream.write_all of a reply returns, no guard alive: a failed CurrentLayerName is
\* logged; send_response removes the connection on failure; the answer to bytes that
\* are no message is followed by the removal whatever the write gave
WriteReply(c) ==
    /\ phase[c] = "open"
    /\ pc[c] = "write"
    /\ c \notin undrained
    /\ \E ok \in BOOLEAN :
        pc' = [pc EXCEPT ![c] =
                 IF cur[c] = Malformed THEN "remove"
                 ELSE IF cur[c].type = "RequestCurrentLayerName" THEN "wake"
                 ELSE IF ok THEN "wake" ELSE "remove"]
    /\ UNCHANGED << kanata, connections, phase, quiet, sent_initial_layer_change, cur,
                    nread, klock, rlock >>
    /\ ReaderFrame /\ UNCHANGED wakeup_channel

\* stream.write_all of the Error for an unknown fake key returns, k still alive: on Ok
\* continue, which drops k; on Err the removal follows
ErrWrite(c) ==
    /\ phase[c] = "open"
    /\ pc[c] = "err_write"
    /\ c \notin undrained
    /\ \E ok \in BOOLEAN :
        IF ok
        THEN /\ klock' = "free"
             /\ pc' = [pc EXCEPT ![c] = "read"]
        ELSE /\ pc' = [pc EXCEPT ![c] = "remove"]
             /\ UNCHANGED klock
    /\ UNCHANGED << kanata, connections, phase, quiet, sent_initial_layer_change, cur,
                    nread, rlock >>
    /\ ReaderFrame /\ UNCHANGED wakeup_channel

\* connections.lock() of a removal: in the loop ("remove") or after it ("final_remove")
RegistryLock(c) ==
    /\ phase[c] = "open"
    /\ pc[c] \in {"remove", "final_remove"}
    /\ rlock = "free"
    /\ rlock' = c
    /\ pc' = [pc EXCEPT ![c] = IF pc[c] = "remove" THEN "removing" ELSE "final_removing"]
    /\ UNCHANGED << kanata, connections, phase, quiet, sent_initial_layer_change, cur,
                    nread, klock >>
    /\ ReaderFrame /\ UNCHANGED wakeup_channel

\* .remove(&addr) and the end of the statement; in the loop a break follows, which drops
\* a guard k that is alive; after the loop the thread returns
RegistryRemove(c) ==
    /\ phase[c] = "open"
    /\ pc[c] \in {"removing", "final_removing"}
    /\ connections' = Remove(connections, peer[c])
    /\ rlock' = "free"
    /\ IF pc[c] = "removing"
       THEN /\ klock' = IF klock = c THEN "free" ELSE klock
            /\ pc' = [pc EXCEPT ![c] = "final_remove"]
            /\ UNCHANGED phase
       ELSE /\ phase' = [phase EXCEPT ![c] = "done"]
            /\ pc' = [pc EXCEPT ![c] = "read"]
            /\ UNCHANGED klock
    /\ UNCHANGED << kanata, quiet, sent_initial_layer_change, cur, nread >>
    /\ ReaderFrame /\ UNCHANGED wakeup_channel

\* wakeup_channel.send(..).expect(..): the send waits while the channel is full; a failed
\* send panics in the reader thread, which ends without the removal after the loop
Wake(c) ==
    /\ phase[c] = "open"
    /\ pc[c] = "wake"
    /\ \E ok \in BOOLEAN :
        IF ok
        THEN /\ wakeup_channel < WakeupCapacity
             /\ wakeup_channel' = wakeup_channel + 1
             /\ pc' = [pc EXCEPT ![c] = "read"]
             /\ UNCHANGED phase
        ELSE /\ phase' = [phase EXCEPT ![c] = "panicked"]
             /\ pc' = [pc EXCEPT ![c] = "read"]
             /\ UNCHANGED wakeup_channel
    /\ UNCHANGED << kanata, connections, quiet, sent_initial_layer_change, cur, nread,
                    klock, rlock >>
    /\ ReaderFrame

\* the iterator ends: the loop is left
ReaderEof(c) ==
    /\ phase[c] = "open"
    /\ pc[c] = "read"
    /\ closed[c]
    /\ pc' = [pc EXCEPT ![c] = "final_remove"]
    /\ UNCHANGED << kanata, connections, phase, quiet, sent_initial_layer_change, cur,
                    nread, klock, rlock >>
    /\ ReaderFrame /\ UNCHANGED wakeup_channel

\* the engine's processing loop takes the engine lock for a round, and gives it back
EngineLoopLock ==
    /\ epc = "idle"
    /\ klock = "free"
    /\ klock' = "engine"
    /\ epc' = "locked"
    /\ UNCHANGED << kanata, serverVars, watcherRest, pureVars, threadVars >>

EngineLoopUnlock ==
    /\ epc = "locked"
    /\ klock = "engine"
    /\ klock' = "free"
    /\ epc' = "idle"
    /\ UNCHANGED << kanata, serverVars, watcherRest, pureVars, threadVars >>

\* the processing loop takes an event off the wake-up channel, in a round of its own
EngineLoopRecv ==
    /\ epc = "locked"
    /\ klock = "engine"
    /\ wakeup_channel > 0
    /\ wakeup_channel' = wakeup_channel - 1
    /\ UNCHANGED << kanata, serverVars, watcherVars, pureVars, rlock, undrained, listening >>

\* the keyboard's event loop puts a key event on the same channel
KeyEventSend ==
    /\ wakeup_channel < WakeupCapacity
    /\ wakeup_channel' = wakeup_channel + 1
    /\ UNCHANGED << kanata, serverVars, watcherVars, pureVars, rlock, undrained, listening >>

ReaderThread(c) ==
    \/ TakeItem(c) \/ PushLock(c) \/ PushWrite(c) \/ DispatchLock(c) \/ UnderLock(c)
    \/ WriteReply(c) \/ ErrWrite(c) \/ RegistryLock(c) \/ RegistryRemove(c) \/ Wake(c)
    \/ ReaderEof(c)

ThreadNext ==
    \/ AcceptError
    \/ EngineLoopLock
    \/ EngineLoopUnlock
    \/ EngineLoopRecv
    \/ KeyEventSend
    \/ \E c \in Conns :
        \/ AcceptConn(c) \/ AcceptPanics(c)
        \/ ClientClose(c) \/ ClientStalls(c) \/ ClientDrains(c)
        \/ ReaderThread(c)

\* the server's threads with their locks
ThreadSpec == Init /\ [][ThreadNext]_vars

(***************************************************************************)
(* tcp_protocol: as_bytes.  Bytes are modelled one by one where JSON gives *)
(* them a meaning (braces, brackets, quote, backslash, colon, comma, the   *)
(* newline) and as one token for a run of other characters.  A text is a   *)
(* sequence of characters, any of these among them.                        *)
(***************************************************************************)
NL == "\n"
Backslash == "\\"
MaxText == 2

\* characters the texts of the messages are made of: layer names, configuration text and
\* error texts can hold any of them
TextChars == {"a", NL, Quote, Backslash, "}"}
Texts == SeqsUpTo(TextChars, MaxText)

\* a variant that copies every character as it is
escape_Raw(ch) == << ch >>

\* serde_json's string formatter: quote, backslash and control characters are escaped
escape(ch) ==
    IF ch = NL THEN << Backslash, "n" >>
    ELSE IF ch \in {Quote, Backslash} THEN << Backslash, ch >>
    ELSE << ch >>

json_string(text) ==
    << Quote >> \o Flatten([i \in 1..Len(text) |-> escape(text[i])]) \o << Quote >>

\* a byte is escaped when an odd number of backslashes stands right before it; an
\* unescaped quote opens or closes a string
Escaped(b, i) ==
    LET others == {j \in 1..(i - 1) : b[j] # Backslash}
        last == IF others = {} THEN 0 ELSE CHOOSE j \in others : \A k \in others : k <= j
    IN  (i - 1 - last) % 2 = 1
StringQuotes(b) == {i \in 1..Len(b) : b[i] = Quote /\ ~Escaped(b, i)}

RECURSIVE json_joined(_)
json_joined(items) ==
    IF items = << >> THEN << >>
    ELSE IF Len(items) = 1 THEN items[1]
    ELSE items[1] \o << "," >> \o json_joined(Tail(items))

json_array(items) == << "[" >> \o json_joined(items) \o << "]" >>

\* a struct or struct variant: its fields as "name":value
json_field(name, value) == << Quote, name, Quote, ":" >> \o value
json_object(fields) == << "{" >> \o json_joined(fields) \o << "}" >>

\* an Option<String>: None, or Some of a text
NoText == << >>
SomeText(t) == << t >>

\* Serialize for ValidationError
\* an Option<usize>
NoNumber == << >>
SomeNumber(n) == << n >>

\* the decimal digits of a number, one byte each
Digits == << "0", "1", "2", "3", "4", "5", "6", "7", "8", "9" >>
RECURSIVE json_number(_)
json_number(n) ==
    IF n < 10 THEN << Digits[n + 1] >>
    ELSE Append(json_number(n \div 10), Digits[(n % 10) + 1])

\* Serialize for ValidationError: an Option that is None is written as null
json_validation_error(e) ==
    json_object(<< json_field("line", json_number(e.line)),
                   json_field("message", json_string(e.message)),
                   json_field("severity", json_string(e.severity)),
                   json_field("column", IF e.column = NoNumber THEN << "null" >>
                                        ELSE json_number(e.column[1])),
                   json_field("file", IF e.file = NoText THEN << "null" >>
                                      ELSE json_string(e.file[1])) >>)

\* Serialize for ServerMessage: externally tagged, {"Variant":{fields}}
ServerMessage_to_vec(m) ==
    json_object(<< json_field(m.type,
        CASE m.type \in {"LayerChange"} ->
                json_object(<< json_field("new", json_string(m.new)) >>)
          [] m.type = "LayerNames" ->
                json_object(<< json_field("names",
                    json_array([i \in 1..Len(m.names) |-> json_string(m.names[i])])) >>)
          [] m.type = "CurrentLayerInfo" ->
                json_object(<< json_field("name", json_string(m.name)),
                               json_field("cfg_text", json_string(m.cfg_text)) >>)
          [] m.type = "CurrentLayerName" ->
                json_object(<< json_field("name", json_string(m.name)) >>)
          [] m.type = "Error" ->
                json_object(<< json_field("msg", json_string(m.prefix \o m.arg)) >>)
          [] m.type = "ValidationResult" ->
                json_object(
                    << json_field("success", << IF m.success THEN "true" ELSE "false" >>),
                       json_field("errors",
                           json_array([i \in 1..Len(m.errors) |->
                                          json_validation_error(m.errors[i])])),
                       json_field("warnings",
                           json_array([i \in 1..Len(m.warnings) |->
                                          json_validation_error(m.warnings[i])])),
                       json_field("error_count", json_number(m.error_count)),
                       json_field("warning_count", json_number(m.warning_count)) >>
                    \o (IF m.request_id = NoText THEN << >>
                        ELSE << json_field("request_id",
                                           json_string(m.request_id[1])) >>))) >>)

\* Serialize for ServerResponse: tagged by "status"
ServerResponse_to_vec(r) ==
    IF r.status = "Ok"
    THEN json_object(<< json_field("status", json_string(<< "Ok" >>)) >>)
    ELSE json_object(<< json_field("status", json_string(<< "Error" >>)),
                        json_field("msg", json_string(r.prefix \o r.arg)) >>)

\* ServerMessage::as_bytes and ServerResponse::as_bytes: to_vec, then push(b'\n')
ServerMessage_as_bytes(m) == Append(ServerMessage_to_vec(m), NL)
ServerResponse_as_bytes(r) == Append(ServerResponse_to_vec(r), NL)

\* the messages as_bytes is checked on
ShortTexts == {<< >>, << NL >>, << "a", Quote >>, << "}", Backslash >>}
ValidationErrors ==
    { [line |-> 42, message |-> t, severity |-> << "error" >>, column |-> NoNumber,
       file |-> SomeText(<< "configuration" >>)] :
        t \in ShortTexts }

ServerMessages ==
    {LayerChange(t) : t \in Texts}
    \cup {LayerNames(ns) : ns \in SeqsUpTo(ShortTexts, 2)}
    \cup {CurrentLayerInfo(n, t) : n \in ShortTexts, t \in ShortTexts}
    \cup {CurrentLayerNameMsg(t) : t \in ShortTexts}
    \cup {ErrorMsg(<< "unknown virtual/fake key: " >>, t) : t \in ShortTexts}
    \cup {ValidationResult(es = << >>, es, << >>, Len(es), 0, id) :
            es \in SeqsUpTo(ValidationErrors, 1), id \in {NoText, SomeText(<< "req", NL >>)}}

ServerResponses ==
    {ResponseOk} \cup {ResponseError(<< >>, t) : t \in Texts}

MaxWrites == 2

BytesInit ==
    /\ InitSystem
    /\ fs = NoFs
    /\ call \in [fn : {"as_bytes"},
                 msgs : SeqsUpTo(ServerMessages \cup ServerResponses, MaxWrites) \ {<< >>}]
    /\ ret = [done |-> FALSE, stream |-> << >>, written |-> 0]

WritePending == call.fn = "as_bytes" /\ ~ret.done

\* stream.write_all(&message.as_bytes()) for the next message, a ServerMessage
WriteServerMessage ==
    /\ WritePending
    /\ call.msgs[ret.written + 1] \in ServerMessages
    /\ ret' = [done |-> ret.written + 1 = Len(call.msgs),
               stream |-> ret.stream \o ServerMessage_as_bytes(call.msgs[ret.written + 1]),
               written |-> ret.written + 1]
    /\ UNCHANGED << kanata, serverVars, watcherVars, threadVars, fs, call >>

\* stream.write_all(&response.as_bytes()) for the next message, a ServerResponse
WriteServerResponse ==
    /\ WritePending
    /\ call.msgs[ret.written + 1] \in ServerResponses
    /\ ret' = [done |-> ret.written + 1 = Len(call.msgs),
               stream |-> ret.stream \o ServerResponse_as_bytes(call.msgs[ret.written + 1]),
               written |-> ret.written + 1]
    /\ UNCHANGED << kanata, serverVars, watcherVars, threadVars, fs, call >>

BytesNext == WriteServerMessage \/ WriteServerResponse

\* as_bytes over the messages above, written one after the other to one stream
BytesSpec == BytesInit /\ [][BytesNext]_vars

(***************************************************************************)
(* tcp_protocol: Deserialize.  serde_json's reader on the bytes the        *)
(* writer above produces: strings are unescaped, numbers read from their   *)
(* digits, the fields of a struct found by their names, a missing Option   *)
(* field read as None.                                                     *)
(***************************************************************************)
DeserializeError == [type |-> "Err"]

Least(S) == CHOOSE x \in S : \A y \in S : x <= y

\* for every byte: whether it stands inside a string, and the nesting depth of braces
\* and brackets after it
Scan(b) ==
    LET quotes == StringQuotes(b)
        inString == [i \in 1..Len(b) |-> Cardinality({q \in quotes : q < i}) % 2 = 1]
        opens == {i \in 1..Len(b) : b[i] \in {"{", "["} /\ ~inString[i]}
        closes == {i \in 1..Len(b) : b[i] \in {"}", "]"} /\ ~inString[i]}
    IN  [quotes |-> quotes,
         inString |-> inString,
         depth |-> [i \in 1..Len(b) |->
                      Cardinality({o \in opens : o <= i})
                          - Cardinality({c \in closes : c <= i})]]

\* where the value of the field `key` of the object that opens at byte s starts; 0 when
\* the object has no such field
FieldStart(b, sc, s, key) ==
    LET ps == {p \in (s + 1)..(Len(b) - 4) :
                  /\ b[p] = Quote /\ ~sc.inString[p] /\ sc.depth[p] = sc.depth[s]
                  /\ \A k \in s..p : sc.depth[k] >= sc.depth[s]
                  /\ b[p + 1] = key /\ b[p + 2] = Quote /\ b[p + 3] = ":"}
    IN  IF ps = {} THEN 0 ELSE Least(ps) + 4

\* the last byte of the value that starts at byte s
ValueEnd(b, sc, s) ==
    IF b[s] = Quote THEN Least({q \in sc.quotes : q > s})
    ELSE IF b[s] \in {"{", "["}
    THEN Least({j \in (s + 1)..Len(b) : sc.depth[j] = sc.depth[s] - 1})
    ELSE Least({j \in (s + 1)..Len(b) : ~sc.inString[j] /\ b[j] \in {",", "}", "]"}}) - 1

\* a variant that takes the bytes between the quotes as they are
parse_string_Raw(b, s) ==
    LET e == Least({q \in StringQuotes(b) : q > s})
    IN  SubSeq(b, s + 1, e - 1)

\* the text of the string that opens at byte s: a backslash is dropped and gives the byte
\* after it its meaning
parse_string(b, s) ==
    LET e == Least({q \in StringQuotes(b) : q > s})
        kept == {k \in (s + 1)..(e - 1) : Escaped(b, k) \/ b[k] # Backslash}
        at(i) == CHOOSE k \in kept : Cardinality({j \in kept : j < k}) = i - 1
    IN  [i \in 1..Cardinality(kept) |->
            IF Escaped(b, at(i)) /\ b[at(i)] = "n" THEN NL ELSE b[at(i)]]

DigitValue(t) == CHOOSE d \in 0..9 : Digits[d + 1] = t
RECURSIVE FromDigits(_)
FromDigits(ds) ==
    IF Len(ds) = 1 THEN DigitValue(ds[1])
    ELSE FromDigits(SubSeq(ds, 1, Len(ds) - 1)) * 10 + DigitValue(ds[Len(ds)])

parse_number(b, sc, s) == FromDigits(SubSeq(b, s, ValueEnd(b, sc, s)))

\* an Option field: absent or null is None
parse_option_string(b, sc, s) ==
    IF s = 0 \/ b[s] = "null" THEN NoText ELSE SomeText(parse_string(b, s))
parse_option_number(b, sc, s) ==
    IF s = 0 \/ b[s] = "null" THEN NoNumber ELSE SomeNumber(parse_number(b, sc, s))

\* Deserialize for ValidationError, for the object that opens at byte s
parse_validation_error(b, sc, s) ==
    IF FieldStart(b, sc, s, "line") = 0 \/ FieldStart(b, sc, s, "message") = 0
       \/ FieldStart(b, sc, s, "severity") = 0
    THEN DeserializeError
    ELSE [line |-> parse_number(b, sc, FieldStart(b, sc, s, "line")),
          message |-> parse_string(b, FieldStart(b, sc, s, "message")),
          severity |-> parse_string(b, FieldStart(b, sc, s, "severity")),
          column |-> parse_option_number(b, sc, FieldStart(b, sc, s, "column")),
          file |-> parse_option_string(b, sc, FieldStart(b, sc, s, "file"))]

\* a Vec<ValidationError>, for the array that opens at byte s
parse_validation_errors(b, sc, s) ==
    LET e == ValueEnd(b, sc, s)
        starts == {j \in (s + 1)..(e - 1) :
                      b[j] = "{" /\ ~sc.inString[j] /\ sc.depth[j] = sc.depth[s] + 1}
        at(i) == CHOOSE k \in starts : Cardinality({j \in starts : j < k}) = i - 1
    IN  [i \in 1..Cardinality(starts) |-> parse_validation_error(b, sc, at(i))]

\* Serialize for ClientMessage: externally tagged; request_id is left out when None
ClientMessage_to_vec(m) ==
    json_object(<< json_field(m.type,
        IF m.type = "ValidateConfig"
        THEN json_object(
                << json_field("config_content", json_string(m.config_content)) >>
                \o (IF m.request_id = NoText THEN << >>
                    ELSE << json_field("request_id", json_string(m.request_id[1])) >>))
        ELSE json_object(
                << json_field("quiet", << IF m.quiet THEN "true" ELSE "false" >>) >>)) >>)

\* the variant an externally tagged enum is read as, and where its fields start
VariantOf(b) ==
    IF Len(b) >= 7 /\ b[1] = "{" /\ b[2] = Quote /\ b[4] = Quote /\ b[5] = ":" /\ b[6] = "{"
    THEN b[3] ELSE "?"

\* serde_json::from_str::<ClientMessage>
ClientMessage_from_slice(b) ==
    LET sc == Scan(b)
    IN  IF VariantOf(b) = "ValidateConfig" /\ FieldStart(b, sc, 6, "config_content") # 0
        THEN [type |-> "ValidateConfig",
              config_content |-> parse_string(b, FieldStart(b, sc, 6, "config_content")),
              request_id |-> parse_option_string(b, sc, FieldStart(b, sc, 6, "request_id"))]
        ELSE IF VariantOf(b) = "SetSessionMode" /\ FieldStart(b, sc, 6, "quiet") # 0
                /\ b[FieldStart(b, sc, 6, "quiet")] \in {"true", "false"}
        THEN [type |-> "SetSessionMode", quiet |-> b[FieldStart(b, sc, 6, "quiet")] = "true"]
        ELSE DeserializeError

\* serde_json::from_str::<ServerMessage>, for a ValidationResult
ServerMessage_from_slice(b) ==
    LET sc == Scan(b)
        f(key) == FieldStart(b, sc, 6, key)
    IN  IF VariantOf(b) = "ValidationResult"
           /\ \A key \in {"success", "errors", "warnings", "error_count", "warning_count"} :
                f(key) # 0
        THEN ValidationResult(b[f("success")] = "true",
                              parse_validation_errors(b, sc, f("errors")),
                              parse_validation_errors(b, sc, f("warnings")),
                              parse_number(b, sc, f("error_count")),
                              parse_number(b, sc, f("warning_count")),
                              parse_option_string(b, sc, f("request_id")))
        ELSE DeserializeError

\* the messages the round trip is made with
RoundTripErrors ==
    [line : {5, 42}, message : {<< "a", Quote >>, << NL, Backslash >>},
     severity : {<< "error" >>}, column : {NoNumber, SomeNumber(15)},
     file : {NoText, SomeText(<< "config.kbd" >>)}]

ClientRoundTrip ==
    [type : {"ValidateConfig"}, config_content : Texts,
     request_id : {NoText} \cup {SomeText(t) : t \in ShortTexts}]
    \cup [type : {"SetSessionMode"}, quiet : BOOLEAN]

ServerRoundTrip ==
    {ValidationResult(ok, es, ws, Len(es), 10 * Len(ws), id) :
        ok \in BOOLEAN, es \in SeqsUpTo(RoundTripErrors, 1),
        ws \in SeqsUpTo(RoundTripErrors, 1), id \in {NoText, SomeText(<< "test-123" >>)}}

RoundTripInit ==
    /\ InitSystem
    /\ fs = NoFs
    /\ call \in [fn : {"round_trip"}, msg : ClientRoundTrip \cup ServerRoundTrip]
    /\ ret = [done |-> FALSE, json |-> << >>]

\* serde_json::to_string(&msg)
SerializeClient ==
    /\ call.fn = "round_trip" /\ ~ret.done /\ ret.json = << >>
    /\ call.msg \in ClientRoundTrip
    /\ ret' = [done |-> FALSE, json |-> ClientMessage_to_vec(call.msg)]
    /\ UNCHANGED << kanata, serverVars, watcherVars, threadVars, fs, call >>

SerializeServer ==
    /\ call.fn = "round_trip" /\ ~ret.done /\ ret.json = << >>
    /\ call.msg \in ServerRoundTrip
    /\ ret' = [done |-> FALSE, json |-> ServerMessage_to_vec(call.msg)]
    /\ UNCHANGED << kanata, serverVars, watcherVars, threadVars, fs, call >>

\* serde_json::from_str(&json)
DeserializeClient ==
    /\ call.fn = "round_trip" /\ ~ret.done /\ ret.json # << >>
    /\ call.msg \in ClientRoundTrip
    /\ ret' = [done |-> TRUE, json |-> ret.json, value |-> ClientMessage_from_slice(ret.json)]
    /\ UNCHANGED << kanata, serverVars, watcherVars, threadVars, fs, call >>

DeserializeServer ==
    /\ call.fn = "round_trip" /\ ~ret.done /\ ret.json # << >>
    /\ call.msg \in ServerRoundTrip
    /\ ret' = [done |-> TRUE, json |-> ret.json, value |-> ServerMessage_from_slice(ret.json)]
    /\ UNCHANGED << kanata, serverVars, watcherVars, threadVars, fs, call >>

RoundTripNext == SerializeClient \/ SerializeServer \/ DeserializeClient \/ DeserializeServer

\* a message written as JSON and read back
RoundTripSpec == RoundTripInit /\ [][RoundTripNext]_vars

(***************************************************************************)
(* Properties.                                                             *)
(***************************************************************************)
Count(sq, P(_)) == Cardinality({i \in 1..Len(sq) : P(sq[i])})
InRegistry(c) == \E a \in Addrs : connections[a] = c

\* the reader of c has just taken a message off the stream
JustRead(c) == nread'[c] = nread[c] + 1

\* what holds of a connection that has sent commands and no SetSessionMode
C1_State ==
    \A c \in Conns :
        hist[c] = "cmds" =>
            /\ lcw[c] = 1
            /\ (cmds[c] = 1 /\ IsCommand(cur[c])) =>
                /\ Len(resp[c]) >= 1
                /\ IsLayerChange(resp[c][1])
                /\ \A i \in 2..Len(resp[c]) : ~IsLayerChange(resp[c][i])
            /\ cmds[c] > 1 => \A i \in 1..Len(resp[c]) : ~IsLayerChange(resp[c][i])

\* the push is the first write for the message and names the current layer
C1_Step ==
    \A c \in Conns :
        (JustRead(c) /\ lcw'[c] = lcw[c] + 1) =>
            /\ resp'[c] = << Wr(LayerChange(layer_info[kanata.cur_layer].name),
                                "ServerMessage", resp'[c][1].ok) >>
            /\ kanata' = kanata

\* C1: a connection that never sends SetSessionMode gets exactly one initial LayerChange,
\* written for its first command before any reply to it and naming the layer that is
\* current at the write; later commands of the connection get none.
C1_InitialPushOnce == C1_State /\ [][C1_State' /\ C1_Step]_vars

\* the first command of a connection was answered after the push, which named the layer
\* another connection had made current
C1_Witness ==
    \E c \in Conns :
        /\ hist[c] = "cmds"
        /\ cmds[c] = 1
        /\ pc[c] = "wake"
        /\ Len(resp[c]) = 2
        /\ resp[c][1] = Wr(LayerChange("nav"), "ServerMessage", TRUE)
        /\ resp[c][2].msg.type = "CurrentLayerName"

\* C2: after a first message SetSessionMode{quiet:true}, no sequence of other commands
\* makes the reader write a LayerChange.
C2_QuietFirstNoPush ==
    \A c \in Conns :
        hist[c] = "quietfirst" =>
            /\ lcw[c] = 0
            /\ ~sent_initial_layer_change[c]
            /\ \A i \in 1..Len(resp[c]) : ~IsLayerChange(resp[c][i])

C2_Witness ==
    \E c \in Conns :
        /\ hist[c] = "quietfirst"
        /\ cmds[c] >= 1
        /\ wakes[c] >= 1
        /\ cur[c].type = "RequestCurrentLayerName"
        /\ Len(resp[c]) = 1

\* the count of initial pushes of a connection
C3_State == \A c \in Conns : lcw[c] <= 1 /\ (sent_initial_layer_change[c] => lcw[c] = 1)

\* the flag stays set, and a later SetSessionMode{quiet:false} writes nothing
C3_Step ==
    \A c \in Conns :
        /\ sent_initial_layer_change[c] => sent_initial_layer_change'[c]
        /\ (JustRead(c) /\ sent_initial_layer_change[c]
              /\ cur'[c] = [type |-> "SetSessionMode", quiet |-> FALSE]) =>
                (resp'[c] = << >> /\ lcw'[c] = lcw[c])

\* C3: over any input the initial LayerChange is written at most once:
\* sent_initial_layer_change never goes back to false, and a SetSessionMode{quiet:false}
\* that arrives after the push writes nothing.
C3_PushAtMostOnce == C3_State /\ [][C3_State' /\ C3_Step]_vars

\* a SetSessionMode{quiet:false} was taken after the push had been sent
C3_Witness ==
    \E c \in Conns :
        /\ sent_initial_layer_change[c]
        /\ nread[c] >= 2
        /\ cur[c] = [type |-> "SetSessionMode", quiet |-> FALSE]
        /\ resp[c] = << >>
        /\ lcw[c] = 1

\* what holds of a connection whose last input was malformed
C4_State ==
    \A c \in Conns :
        cur[c] = Malformed =>
            /\ phase[c] = "done"
            /\ Len(resp[c]) = 1
            /\ resp[c][1].fam = "ServerResponse"
            /\ resp[c][1].msg.status = "Error"
            /\ ~InRegistry(c)

\* the entry is removed with the read, and nothing of the connection changes later
C4_Step ==
    \A c \in Conns :
        /\ (JustRead(c) /\ cur'[c] = Malformed) => connections'[peer[c]] = NoConn
        /\ cur[c] = Malformed =>
            /\ cur'[c] = cur[c] /\ nread'[c] = nread[c] /\ resp'[c] = resp[c]
            /\ wakes'[c] = wakes[c] /\ phase'[c] = phase[c]

\* C4: input that is no ClientMessage gets exactly one Error response, ends the reader
\* (nothing more of the connection is processed) and leaves its address out of the
\* registry.
C4_MalformedEndsConnection == C4_State /\ [][C4_State' /\ C4_Step]_vars

\* malformed input arrived after a command had been processed
C4_Witness ==
    \E c \in Conns :
        /\ cur[c] = Malformed
        /\ nread[c] = 2
        /\ phase[c] = "done"

\* C5: whichever message a failed write was carrying, the connection is removed from the
\* registry and its reader stops.
C5_AnyFailedWriteEndsConnection ==
    \A c \in Conns :
        (\E i \in 1..Len(resp[c]) : IsWrite(resp[c][i]) /\ ~resp[c][i].ok) =>
            (phase[c] = "done" /\ ~InRegistry(c))

\* the reader of c has just left the dispatch of the command cur[c]
JustDispatched(c) == phase[c] = "open" /\ pc[c] = "dispatch" /\ pc'[c] # "dispatch"

Others(c) == << [d \in Conns \ {c} |-> << phase[d], pc[d], quiet[d], cur[d], resp[d] >>],
               [d \in Conns \ {c} |-> << sent_initial_layer_change[d], wakes[d], lcw[d] >>] >>

\* the registry before the accept and after the end of the reader
C6_State ==
    \A c \in Conns :
        /\ phase[c] = "new" => (nread[c] = 0 /\ cur[c] = NoMsg /\ ~InRegistry(c))
        /\ phase[c] = "done" => ~InRegistry(c)

\* the accept inserts the entry before the reader has read anything
C6_Step ==
    \A c \in Conns :
        (phase[c] = "new" /\ phase'[c] = "open") =>
            (connections'[peer'[c]] = c /\ nread'[c] = 0 /\ pc'[c] = "read")

UnknownKeyRequest(m) == m.type = "ActOnFakeKey" /\ m.name \notin DOMAIN virtual_keys

\* the initial push of cur[c] failed, so that cur[c] never reached the dispatch
PushFailed(c) == resp[c] # << >> /\ IsLayerChange(resp[c][1]) /\ ~resp[c][1].ok

\* the dispatch of the command cur[c] has been done
Dispatched(c) == IsCommand(cur[c]) /\ pc[c] # "dispatch" /\ ~PushFailed(c)

\* the writes made for a request with an unknown key
C7_State ==
    \A c \in Conns :
        (UnknownKeyRequest(cur[c]) /\ Dispatched(c)) =>
            /\ Count(resp[c], IsErrorMsg) = 1
            /\ Count(resp[c], IsWrite) = Count(resp[c], IsLayerChange) + 1
            /\ IsErrorMsg(resp[c][Len(resp[c])])

\* the dispatch of such a request
C7_Step ==
    \A c \in Conns :
        (JustDispatched(c) /\ UnknownKeyRequest(cur[c])) =>
            /\ kanata' = kanata
            /\ \E ok \in BOOLEAN :
                resp'[c] = Append(resp[c],
                    Wr([type |-> "Error", prefix |-> "unknown virtual/fake key",
                        arg |-> cur[c].name], "ServerMessage", ok))

\* C7: an ActOnFakeKey for a name that is not in the virtual-key table, from any of the
\* connections and interleaved in any way, leaves the engine state as it is and is
\* answered with exactly one Error naming the key.
C7_UnknownFakeKey == C7_State /\ [][C7_State' /\ C7_Step]_vars

\* every connection has sent a request for an unknown key and has been answered
C7_Witness ==
    \A c \in Conns :
        /\ UnknownKeyRequest(cur[c])
        /\ pc[c] = "read"
        /\ phase[c] = "open"
        /\ resp[c][Len(resp[c])] =
              Wr(ErrorMsg("unknown virtual/fake key", "nokey"), "ServerMessage", TRUE)

\* the step that meets a domain error
C8_Step ==
    \A c \in Conns :
        (JustDispatched(c) /\ derr'[c] /\ ~derr[c]) =>
            /\ phase'[c] = "open"
            /\ connections' = connections
            /\ pc'[c] \in {"read", "wake"}
            /\ cur[c].type \in {"ActOnFakeKey", "SetMouse"} \cup ReloadTypes

\* after each of the three domain errors the reader is still in its loop
C8_DomainErrorType(c) ==
    /\ (UnknownKeyRequest(cur[c]) /\ Dispatched(c) /\ resp[c][Len(resp[c])].ok) =>
        (phase[c] = "open" /\ pc[c] = "read" /\ derr[c])
    /\ (cur[c].type = "SetMouse" /\ pc[c] # "dispatch"
          /\ \E i \in 1..Len(resp[c]) : resp[c][i].fam = "Sink" /\ ~resp[c][i].ok) =>
        (phase[c] = "open" /\ derr[c])
    /\ (cur[c].type \in ReloadTypes /\ pc[c] # "dispatch"
          /\ \E i \in 1..Len(resp[c]) :
               resp[c][i] = Wr(ResponseError("", "reload failed"), "ServerResponse", TRUE)) =>
        (phase[c] = "open" /\ derr[c])

C8_State == \A c \in Conns : C8_DomainErrorType(c)

\* C8: a domain error does not end the connection: after an unknown fake key whose Error
\* was written, a failed reload whose response was written and a failed set_mouse, the
\* reader is still in its loop, the registry is as before, and the next command is read.
C8_DomainErrorKeepsConnection == C8_State /\ [][C8_State' /\ C8_Step]_vars

\* after a domain error the connection took and completed another command
C8_Witness ==
    \E c \in Conns :
        /\ derr[c]
        /\ nread[c] = 2
        /\ cur[c].type = "RequestCurrentLayerName"
        /\ pc[c] = "read"
        /\ resp[c] = << Wr(CurrentLayerNameMsg("base"), "ServerMessage", TRUE) >>
        /\ wakes[c] >= 1
        /\ connections[peer[c]] = c

\* C9: every command other than SetSessionMode that a connection has processed has pushed
\* exactly one wake-up event, whatever the command and its outcome.
C9_OneWakeupPerCommand ==
    \A c \in Conns :
        (phase[c] = "open" /\ pc[c] = "read") => wakes[c] = cmds[c]

\* the reader of c has just taken a SetSessionMode
JustReadSessionMode(c) == JustRead(c) /\ cur'[c].type = "SetSessionMode"

\* what a SetSessionMode leaves alone
SessionModeFrame(c) ==
    /\ kanata' = kanata
    /\ wakes' = wakes
    /\ derr' = derr
    /\ Others(c)' = Others(c)
    /\ quiet'[c] = cur'[c].quiet
    /\ pc'[c] = "read"
    /\ Len(resp'[c]) <= 1
    /\ \A i \in 1..Len(resp'[c]) : IsLayerChange(resp'[c][i])

\* C10: SetSessionMode changes the quiet and sent_initial_layer_change flags of its
\* connection and nothing else: not the engine state, not the registry, no wake-up, no
\* write but at most the one initial LayerChange.
C10_SessionModeChangesOnlyFlags ==
    [][\A c \in Conns :
          JustReadSessionMode(c) =>
              /\ SessionModeFrame(c)
              /\ connections' = connections
              /\ phase' = phase]_vars

\* the step that takes a SetSessionMode
C10_Step ==
    \A c \in Conns :
        JustReadSessionMode(c) =>
            /\ SessionModeFrame(c)
            /\ IF \E i \in 1..Len(resp'[c]) : ~resp'[c][i].ok
               THEN /\ connections' = [connections EXCEPT ![peer[c]] = NoConn]
                    /\ phase' = [phase EXCEPT ![c] = "done"]
                    /\ sent_initial_layer_change'[c] = sent_initial_layer_change[c]
               ELSE /\ connections' = connections
                    /\ phase' = phase
                    /\ sent_initial_layer_change'[c] =
                          (sent_initial_layer_change[c] \/ resp'[c] # << >>)

\* a SetSessionMode never stands at the dispatch
C10_State ==
    \A c \in Conns : cur[c].type = "SetSessionMode" => (pc[c] = "read" /\ Len(resp[c]) <= 1)

\* C10, amended: SetSessionMode leaves the engine state, the wake-up channel and the other
\* connections as they are, writes at most the one initial LayerChange and never reaches
\* the dispatch; it changes the flags of its connection and, only when the write of that
\* LayerChange fails, removes the connection from the registry and ends its reader.
C10_SessionModeFrame == C10_State /\ [][C10_State' /\ C10_Step]_vars

\* a SetSessionMode was handled while the engine had state of its own and wake-ups were sent
C10_Witness ==
    \E c \in Conns :
        /\ cur[c] = [type |-> "SetSessionMode", quiet |-> FALSE]
        /\ nread[c] = 2
        /\ wakes[c] = 1
        /\ phase[c] = "open"
        /\ kanata.cur_layer = 2

IsHandlerCall(w) == w.fam = "Handler"
IsResponse(w) == w.fam = "ServerResponse"

\* what was done for a reload command that has been dispatched
C11_State ==
    \A c \in Conns :
        (cur[c].type \in ReloadTypes /\ Dispatched(c)) =>
            /\ Count(resp[c], IsHandlerCall) = 1
            /\ Count(resp[c], IsResponse) = 1
            /\ Count(resp[c], IsWrite) = Count(resp[c], IsLayerChange) + 1

\* the dispatch of a reload command: the handler gets the command, its result makes the response
C11_Step ==
    \A c \in Conns :
        (JustDispatched(c) /\ cur[c].type \in ReloadTypes) =>
            \E handled, ok \in BOOLEAN :
                resp'[c] = resp[c] \o
                    << Wr([type |-> "handle_client_command", cmd |-> cur[c],
                           result |-> [ok |-> handled,
                                       err |-> IF handled THEN None ELSE "reload failed"]],
                          "Handler", handled),
                       Wr(IF handled THEN [status |-> "Ok"]
                          ELSE [status |-> "Error", prefix |-> "", arg |-> "reload failed"],
                          "ServerResponse", ok) >>

\* C11: each of the five reload commands is handed once to the engine's reload handler and
\* answered with exactly one ServerResponse, Ok when the handler returned Ok and Error with
\* the handler's error text when it returned an error.
C11_ReloadOneResponse == C11_State /\ [][C11_State' /\ C11_Step]_vars

\* a reload the handler accepted was answered Ok while a reload it refused was answered Error
C11_Witness ==
    \E c, d \in Conns :
        /\ cur[c].type = "Reload" /\ pc[c] = "wake"
        /\ resp[c][Len(resp[c])] = Wr(ResponseOk, "ServerResponse", TRUE)
        /\ cur[d].type = "ReloadFile" /\ pc[d] = "wake"
        /\ resp[d][Len(resp[d])] = Wr(ResponseError("", "reload failed"), "ServerResponse", TRUE)

\* C12: a ServerResponse is written only as the reply to one of the five reload commands;
\* every other output of the server, the error for undecodable input included, is a
\* ServerMessage.
C12_ServerResponseOnlyForReload ==
    \A c \in Conns :
        \A i \in 1..Len(resp[c]) :
            IsResponse(resp[c][i]) => cur[c].type \in ReloadTypes

IsValidatorCall(w) == w.fam = "Validator"
IsValidationResult(w) == w.fam = "ServerMessage" /\ w.msg.type = "ValidationResult"

\* a ValidateConfig whose config_content is longer than 1,000,000 bytes
OversizeRequest(m) == m.type = "ValidateConfig" /\ m.len > 1000000

\* what was done for an oversized ValidateConfig that has been dispatched
C13_State ==
    \A c \in Conns :
        (OversizeRequest(cur[c]) /\ Dispatched(c)) =>
            /\ Count(resp[c], IsValidatorCall) = 0
            /\ Count(resp[c], IsValidationResult) = 1
            /\ LET w == resp[c][Len(resp[c])] IN
                /\ IsValidationResult(w)
                /\ w.msg.success = FALSE
                /\ Len(w.msg.errors) = 1
                /\ w.msg.warnings = << >>
                /\ w.msg.error_count = 1
                /\ w.msg.warning_count = 0
                /\ w.msg.request_id = cur[c].request_id

\* its dispatch writes once and leaves the engine state alone
C13_Step ==
    \A c \in Conns :
        (JustDispatched(c) /\ OversizeRequest(cur[c])) =>
            (kanata' = kanata /\ Len(resp'[c]) = Len(resp[c]) + 1)

\* C13: a ValidateConfig with more than 1,000,000 bytes of config_content is answered with
\* a ValidationResult with success=false, one error, error_count=1, warning_count=0 and the
\* request_id of the request (absent when it had none), and the validator is not called.
C13_OversizeResult == C13_State /\ [][C13_State' /\ C13_Step]_vars

\* an oversized request without request_id and one with a request_id have been answered
C13_Witness ==
    \E c, d \in Conns :
        /\ OversizeRequest(cur[c]) /\ cur[c].request_id = None
        /\ phase[c] = "open" /\ pc[c] = "read"
        /\ resp[c][Len(resp[c])].ok /\ resp[c][Len(resp[c])].msg.request_id = None
        /\ OversizeRequest(cur[d]) /\ cur[d].request_id = "req-1"
        /\ phase[d] = "open" /\ pc[d] = "read"
        /\ resp[d][Len(resp[d])].ok /\ resp[d][Len(resp[d])].msg.request_id = "req-1"

\* C14: every ValidationResult the server writes, the one made from the validator's errors
\* and warnings and the one for an oversized content, has error_count = len(errors),
\* warning_count = len(warnings) and success = (error_count = 0).
C14_ValidationCounts ==
    \A c \in Conns :
        \A i \in 1..Len(resp[c]) :
            IsValidationResult(resp[c][i]) =>
                LET r == resp[c][i].msg IN
                /\ r.error_count = Len(r.errors)
                /\ r.warning_count = Len(r.warnings)
                /\ r.success = (r.error_count = 0)

\* a result with warnings and no error, one with two errors and the oversize one were sent
C14_Witness ==
    \E c, d \in Conns :
        /\ \E i \in 1..Len(resp[c]) :
            /\ IsValidationResult(resp[c][i])
            /\ resp[c][i].msg.success
            /\ resp[c][i].msg.warning_count = 1
        /\ \E i \in 1..Len(resp[d]) :
            /\ IsValidationResult(resp[d][i])
            /\ resp[d][i].msg.error_count = 2
            /\ ~resp[d][i].msg.success

IsValidationLine(l) == l.type = "ValidationResult"
HasRequestId(r) == r # NoRequestId

\* the request_ids of the ValidationResult lines on the stream of c, in order
ResultIds(c) ==
    LET v == SelectSeq(sent[c], IsValidationLine) IN [i \in 1..Len(v) |-> v[i].request_id]

\* the request_ids of the ValidateConfig requests read from c, in order
RequestIds(c) == SelectSeq(reqs[c], HasRequestId)

\* the i-th ValidationResult on a stream carries the request_id of the i-th ValidateConfig
C15_State ==
    \A c \in Conns :
        /\ Len(ResultIds(c)) <= Len(RequestIds(c))
        /\ \A i \in 1..Len(ResultIds(c)) : ResultIds(c)[i] = RequestIds(c)[i]
        /\ \A i \in 1..Len(sent[c]) :
            IsValidationLine(sent[c][i]) => sent[c][i].request_id = reqs[c][sent[c][i].n]

\* the dispatch of a ValidateConfig writes one ValidationResult with the request_id of the request
C15_Step ==
    \A c \in Conns :
        (JustDispatched(c) /\ cur[c].type = "ValidateConfig") =>
            LET w == resp'[c][Len(resp'[c])] IN
            /\ IsValidationResult(w)
            /\ w.msg.request_id = cur[c].request_id
            /\ Count(resp'[c], IsValidationResult) = 1
            /\ w.ok => Len(ResultIds(c)') = Len(RequestIds(c))

\* C15: the ValidationResult for a ValidateConfig carries the request_id of that request
\* (the same string, or none when the request had none), for a successful and for a failed
\* validation; of several requests on one connection the i-th result carries the i-th
\* request's request_id.
C15_RequestIdEchoed == C15_State /\ [][C15_State' /\ C15_Step]_vars

\* two ValidateConfig in a row on one connection, without and with a request_id, the first
\* failing and the second passing validation
C15_Witness ==
    \E c \in Conns :
        /\ ResultIds(c) = << None, "req-1" >>
        /\ RequestIds(c) = << None, "req-1" >>
        /\ resp[c][Len(resp[c])].msg.success

\* the lines on the stream of a connection are in the order of the items they were written for
C16_State ==
    \A c \in Conns :
        /\ Len(reqs[c]) = nread[c]
        /\ \A i \in 1..Len(sent[c]) : sent[c][i].n \in 1..nread[c]
        /\ \A i, j \in 1..Len(sent[c]) : i < j => sent[c][i].n <= sent[c][j].n

\* an item is taken only when nothing of the one before is left to do, and a line is
\* written only for the item taken last
C16_Step ==
    \A c \in Conns :
        /\ JustRead(c) => (phase[c] = "open" /\ pc[c] = "read")
        /\ pc[c] \in {"dispatch", "wake"} => (nread'[c] = nread[c] /\ cur'[c] = cur[c])
        /\ sent'[c] # sent[c] =>
            /\ Len(sent'[c]) = Len(sent[c]) + 1
            /\ SubSeq(sent'[c], 1, Len(sent[c])) = sent[c]
            /\ sent'[c][Len(sent'[c])].n = nread'[c]
        /\ (JustDispatched(c) /\ kanata' # kanata) => IsCommand(cur[c])

C17_State == (klock = "watcher") <=> (wpc = "locked")

\* one attempt for a matched event: taken when the lock is free, dropped when it is held
C17_Step ==
    /\ (wpc # "try" /\ wpc' = "try") =>
        (batch # << >> /\ Head(batch) # "other" /\ batch' = Tail(batch))
    /\ (wpc = "idle" /\ batch # << >> /\ Head(batch) = "other" /\ batch' # batch) =>
        (wpc' = "idle" /\ kanata' = kanata /\ klock' = klock)
    /\ (wpc = "try" /\ wpc' # "try") =>
        /\ kanata' = kanata
        /\ batch' = batch
        /\ IF klock = "free"
           THEN klock' = "watcher" /\ wpc' = "locked"
           ELSE klock' = klock /\ wpc' = "idle"
    /\ (wpc = "locked" /\ wpc' # "locked") =>
        (kanata'.live_reload_requested /\ klock' = "free" /\ wpc' = "idle")

\* C17: the watcher's callback never waits for the engine lock: for a matched event it
\* tries the lock once; when a connection thread or the engine loop (a restart included)
\* holds it, the request is dropped and the callback goes on; when it is free, the reload
\* flag is set.
C17_WatcherNeverBlocks ==
    /\ C17_State
    /\ [](wpc = "try" => ENABLED WatcherTryLock)
    /\ [][C17_State' /\ C17_Step]_vars

\* the watcher has set the flag once and dropped a trigger at another time, and is at
\* the next event of its batch while a restart holds the lock
C17_Witness ==
    /\ dropped >= 1
    /\ collapsed >= 1
    /\ epc = "create"
    /\ klock = "engine"
    /\ wpc = "idle"
    /\ batch # << >>
    /\ cpc = "idle"

\* the flag is set exactly when a request has been made since it was last cleared
C18_State == kanata.live_reload_requested <=> (trig > 0)

\* a trigger while the flag is set changes nothing of the engine state, and one reload
\* answers all the triggers made before it
C18_Step ==
    /\ (wpc = "locked" /\ wpc' # "locked") =>
        /\ kanata' = [kanata EXCEPT !.live_reload_requested = TRUE]
        /\ kanata.live_reload_requested => kanata' = kanata
    /\ (kanata.live_reload_requested /\ ~kanata'.live_reload_requested) =>
        (collapsed' = trig /\ trig' = 0)

\* C18: setting the reload flag is idempotent: however many triggers come before the engine
\* loop clears the flag, the flag is as after one trigger, and they are answered by one reload.
C18_FlagIdempotent == C18_State /\ [][C18_State' /\ C18_Step]_vars

\* one reload answered three triggers, two of them events of one batch
C18_Witness ==
    /\ collapsed = 3
    /\ trig = 0
    /\ ~kanata.live_reload_requested
    /\ dropped = 0

\* the watchers that exist, and the one that is installed
C19_State ==
    /\ Cardinality(live) <= 1
    /\ file_watcher # NoWatcher => live = {w \in live : w.id = file_watcher} /\ live # {}
    /\ (epc \in {"idle", "locked"} /\ file_watcher # NoWatcher) =>
        \A w \in live : w.paths = cfg_paths \cup included_files

\* a watcher is created only when no other exists, and installed as created
C19_Step ==
    /\ created' # created => (live = {} /\ file_watcher = NoWatcher /\ Cardinality(live') = 1)
    /\ (epc = "install" /\ epc' # "install") => file_watcher' = new_debouncer

\* C19: restart_watcher never has two native watchers alive: the old one is dropped before
\* the new one is created, at most one handle is installed at any time, and after two
\* restarts with different include sets there is one watcher, subscribed to the latest
\* config and include paths.
C19_OneWatcher == C19_State /\ [][C19_State' /\ C19_Step]_vars

\* two restarts with different include sets have been done
C19_Witness ==
    /\ restarts = 2
    /\ created = 3
    /\ file_watcher = 3
    /\ included_files = {"inc2"}
    /\ live = {[id |-> 3, paths |-> {"cfg", "inc2"}]}
    /\ epc = "idle"

\* outside restart_watcher no restart is pending, and an installed handle is a watcher that exists
C20_State ==
    /\ epc \in {"idle", "locked"} => ~file_watcher_restart_requested
    /\ file_watcher # NoWatcher => \E w \in live : w.id = file_watcher

\* the end of restart_watcher
C20_Step ==
    (epc = "install" /\ epc' # "install") =>
        /\ ~file_watcher_restart_requested'
        /\ new_debouncer = NoWatcher => (file_watcher' = NoWatcher /\ live' = {})
        /\ new_debouncer # NoWatcher => file_watcher' = new_debouncer

\* C20: when the new watcher cannot be created in restart_watcher, the handle in the engine
\* state is absent afterwards, never the old one, and the restart-requested flag is
\* cleared; it is cleared after a successful restart too.
C20_RestartFailure == C20_State /\ [][C20_State' /\ C20_Step]_vars

\* a restart has failed: no handle, no watcher, no request pending
C20_Witness ==
    /\ restarts >= 1
    /\ file_watcher = NoWatcher
    /\ live = {}
    /\ ~file_watcher_restart_requested
    /\ epc = "idle"
    /\ included_files # {}

\* until start_file_watcher has succeeded no handle is installed, and after it has failed
\* (and before any restart) no watcher exists
C21_State ==
    /\ spc \in {"store", "new", "watch", "install"} => file_watcher = NoWatcher
    /\ (spc = "failed" /\ restarts = 0 /\ epc \in {"idle", "locked", "restart"}) =>
        (file_watcher = NoWatcher /\ live = {})

\* the function fails from the creation or from a subscription, and succeeds only with a
\* watcher subscribed to every config and include path
C21_Step ==
    /\ (spc # "failed" /\ spc' = "failed") =>
        /\ spc \in {"new", "watch"}
        /\ file_watcher' = NoWatcher
        /\ live' = {}
        /\ file_watcher_restart_requested' = file_watcher_restart_requested
    /\ (spc # "done" /\ spc' = "done") =>
        /\ file_watcher' # NoWatcher
        /\ live' = {[id |-> file_watcher', paths |-> cfg_paths \cup included_files]}

\* C21: start_file_watcher fails when the native watcher cannot be created or a config or
\* include path cannot be subscribed; then the error is returned, no handle is installed
\* in the engine state and no partly subscribed watcher stays running.
C21_StartFailure == C21_State /\ [][C21_State' /\ C21_Step]_vars

\* the debouncer was created, a subscription failed after it, and the engine loop runs
C21_Witness ==
    /\ spc = "failed"
    /\ created = 1
    /\ live = {}
    /\ file_watcher = NoWatcher
    /\ Cardinality(included_files) = 2
    /\ epc = "locked"

\* the five checks of the callback, for one watched file
ExactMatch(e, w) == e = w
CanonicalMatch(f, e, w) ==
    canonicalize(f, e).ok /\ canonicalize(f, w).ok
        /\ canonicalize(f, e).path = canonicalize(f, w).path
CwdJoinedMatch(f, e, w) == join(f.cwd, e) = join(f.cwd, w)
ParentAndNameMatch(e, w) ==
    /\ e.parts # << >> /\ w.parts # << >>
    /\ e.abs = w.abs
    /\ SubSeq(e.parts, 1, Len(e.parts) - 1) = SubSeq(w.parts, 1, Len(w.parts) - 1)
    /\ e.parts[Len(e.parts)] = w.parts[Len(w.parts)]
    /\ e.parts[Len(e.parts)] # ".."
DirIsParentMatch(f, e, w) ==
    /\ Resolve(f, e) \in f.dirs
    /\ w.parts # << >>
    /\ e = Path(w.abs, SubSeq(w.parts, 1, Len(w.parts) - 1))

OneOfFiveChecks ==
    \E w \in call.all_watched_files :
        \/ ExactMatch(call.event, w)
        \/ CanonicalMatch(fs, call.event, w)
        \/ CwdJoinedMatch(fs, call.event, w)
        \/ ParentAndNameMatch(call.event, w)
        \/ DirIsParentMatch(fs, call.event, w)

CallbackDone == call.fn = "callback" /\ ret.done

\* C22 as stated: after the callback has handled an event, the reload is requested
\* exactly when the event passes one of the five checks
C22_RequestedIffMatched ==
    CallbackDone => (kanata.live_reload_requested <=> OneOfFiveChecks)

\* C22: the callback takes an event for a trigger exactly when the event passes one of
\* the five checks; the reload is requested exactly when it does and try_lock gave the
\* lock; an event that passes none of the checks leaves the engine state as it was
C22_FiveChecks ==
    CallbackDone =>
        /\ Matched(ret.kind) <=> OneOfFiveChecks
        /\ ret.requested <=> (OneOfFiveChecks /\ call.try_lock = "Some")
        /\ kanata.live_reload_requested <=> ret.requested
        /\ kanata.cur_layer = 1 /\ ~kanata.fake_down

\* for C22: an event for the directory of a watched file, the file itself deleted, has
\* passed the fifth check only and the reload has been requested
C22_Witness ==
    /\ CallbackDone
    /\ ret.kind = "dir_parent"
    /\ ret.requested
    /\ call.event = DirA
    /\ call.all_watched_files = {CfgAbs, CfgRel}
    /\ fs.files = {OtherFile}

\* for C22: an event that passes none of the checks has been ignored
C22_WitnessIgnored ==
    /\ CallbackDone /\ ret.kind = "other" /\ call.event = DirB
    /\ call.all_watched_files = {CfgAbs} /\ call.try_lock = "Some"

\* the include directives written in each file, in line order, each resolved against
\* the directory of the file it stands in
DirectivesIn(cfg) ==
    IF cfg = CfgAbs THEN << SubA >>
    ELSE IF cfg = CfgRel THEN << Path(FALSE, << "sub.kbd" >>) >>
    ELSE IF cfg = CfgTwo THEN << SubB, MissingB, AbsB >>
    ELSE IF cfg \in {SubA, SubB} THEN << Path(TRUE, << cfg.parts[1], "deep.kbd" >>) >>
    ELSE IF cfg = CfgLocked THEN << SubA >>
    ELSE << >>

Readable(f, cfg) ==
    \E file \in f.files \ f.unreadable : file = Path(TRUE, (IF cfg.abs THEN << >> ELSE f.cwd.parts) \o cfg.parts)

Present(f, p) ==
    Path(TRUE, (IF p.abs THEN << >> ELSE f.cwd.parts) \o p.parts) \in f.files \cup f.dirs

\* what the directives of the readable files of a list lead to, absent targets left out
FoundIncludes(f, paths) ==
    Flatten([i \in 1..Len(paths) |->
        IF Readable(f, paths[i])
        THEN SelectSeq(DirectivesIn(paths[i]), LAMBDA p : Present(f, p))
        ELSE << >>])

Discovered == call.fn = "discover_include_files" /\ ~ret.done /\ ret'.done

\* C23: discover_include_files returns the targets of the include directives in the
\* order of the config files and of their lines, a relative target resolved against
\* the directory of the file with the directive, an absent target left out; for
\* /a/cfg.kbd with (include "sub.kbd") that is [/a/sub.kbd], or [] without /a/sub.kbd
C23_DiscoverResult ==
    [][Discovered =>
        /\ ret'.include_files = FoundIncludes(fs, call.cfg_paths)
        /\ call.cfg_paths = << CfgAbs >> =>
             ret'.include_files = IF SubA \in fs.files THEN << SubA >> ELSE << >>]_vars

\* for C23: two files have been searched; the second file's directive comes last, the
\* first file's relative directive led into that file's own directory, its absent
\* target was left out
C23_Witness ==
    /\ ret.done /\ call.fn = "discover_include_files" /\ file_watcher = NoWatcher
    /\ call.cfg_paths = << CfgTwo, CfgAbs >>
    /\ ret.include_files = << SubB, AbsB, SubA >>

\* for C23: /a/cfg.kbd has been searched without /a/sub.kbd
C23_WitnessAbsent ==
    /\ ret.done /\ call.fn = "discover_include_files" /\ file_watcher = NoWatcher
    /\ call.cfg_paths = << CfgAbs >> /\ SubA \notin fs.files
    /\ ret.include_files = << >>

WrittenIn(paths) == UNION {Range(DirectivesIn(paths[i])) : i \in 1..Len(paths)}

C25_UnreadableSkipped ==
    [][Discovered =>
        /\ ret'.include_files =
             discover_include_files(fs, SelectSeq(call.cfg_paths, LAMBDA p : Readable(fs, p)))
        /\ \A i \in 1..Len(call.cfg_paths) :
             ~Readable(fs, call.cfg_paths[i]) =>
                 ret'.include_files =
                     discover_include_files(fs, SubSeq(call.cfg_paths, 1, i - 1))
                         \o discover_include_files(fs,
                                SubSeq(call.cfg_paths, i + 1, Len(call.cfg_paths)))
        /\ UNCHANGED << kanata, serverVars, watcherVars, threadVars, fs, call >>]_vars

\* for C25: an unreadable file stood between two readable ones, whose includes were
\* both returned
C25_Witness ==
    /\ ret.done /\ call.fn = "discover_include_files" /\ file_watcher = NoWatcher
    /\ call.cfg_paths = << CfgAbs, CfgLocked, CfgTwo >>
    /\ ret.include_files = << SubA, SubB, AbsB >>

\* C26 as stated: no connection thread holds the engine lock while it is inside a write
\* to its client's socket, so a client that does not read cannot keep the engine lock
\* from the other threads
C26_NoWriteUnderEngineLock ==
    \A c \in Conns : (phase[c] = "open" /\ pc[c] \in WritePoints) => klock # c

\* C27 as stated: no thread takes the registry lock for a removal while it holds the
\* engine lock
C27_RegistryLockOutsideEngineLock ==
    \A c \in Conns : rlock = c => klock # c

\* C28 as stated: after a connection has failed or ended, the accept loop is still
\* accepting new connections
C28_ServerSurvives ==
    (\E c \in Conns : phase[c] \in {"failed", "panicked", "done"}) => listening

\* the writes to the socket the dispatch of cur[c] has added, in order
DispatchWrites(c) ==
    SelectSeq(SubSeq(resp'[c], Len(resp[c]) + 1, Len(resp'[c])), IsWrite)

ActiveLayerName == IF kanata.cur_layer = 1 THEN "base" ELSE "nav"
ActiveLayerText == IF kanata.cur_layer = 1 THEN "cfg-base" ELSE "cfg-nav"

C29_Step ==
    \A c \in Conns :
        JustDispatched(c) =>
            LET w == DispatchWrites(c)
                t == cur[c].type
            IN  /\ t \in {"ChangeLayer", "SetMouse"} => w = << >>
                /\ (t = "ActOnFakeKey" /\ cur[c].name = "vk1") => w = << >>
                /\ t = "RequestLayerNames" =>
                     /\ Len(w) = 1
                     /\ w[1].fam = "ServerMessage"
                     /\ w[1].msg = [type |-> "LayerNames", names |-> << "base", "nav" >>]
                /\ t = "RequestCurrentLayerInfo" =>
                     /\ Len(w) = 1
                     /\ w[1].fam = "ServerMessage"
                     /\ w[1].msg = [type |-> "CurrentLayerInfo", name |-> ActiveLayerName,
                                    cfg_text |-> ActiveLayerText]
                /\ t = "RequestCurrentLayerName" =>
                     /\ Len(w) = 1
                     /\ w[1].fam = "ServerMessage"
                     /\ w[1].msg = [type |-> "CurrentLayerName", name |-> ActiveLayerName]

\* C29: the dispatch of ChangeLayer, SetMouse and ActOnFakeKey with a known name writes
\* nothing; that of RequestLayerNames writes one LayerNames with the names in table order;
\* that of RequestCurrentLayerInfo one CurrentLayerInfo and that of RequestCurrentLayerName
\* one CurrentLayerName, for the layer active at that moment
C29_WritesPerCommand == [][C29_Step]_vars

\* for C29: after a ChangeLayer to "nav", which wrote nothing but the initial push, a
\* RequestCurrentLayerName has been answered with that layer's name
C29_Witness ==
    \E c \in Conns :
        /\ phase[c] = "open" /\ pc[c] = "wake"
        /\ cur[c].type = "RequestCurrentLayerName"
        /\ kanata.cur_layer = 2
        /\ Len(resp[c]) = 1
        /\ resp[c][1].msg = [type |-> "CurrentLayerName", name |-> "nav"]
        /\ Len(sent[c]) = 2 /\ sent[c][1].type = "LayerChange"
        /\ sent[c][2].type = "CurrentLayerName"

\* b is one JSON object and nothing else: it opens with a brace, which closes at the last
\* byte and not before, and every string is closed
IsOneObject(b) ==
    LET quotes == StringQuotes(b)
        inString == [i \in 1..Len(b) |-> Cardinality({q \in quotes : q < i}) % 2 = 1]
        opens == {i \in 1..Len(b) : b[i] \in {"{", "["} /\ ~inString[i]}
        closes == {i \in 1..Len(b) : b[i] \in {"}", "]"} /\ ~inString[i]}
        depth == [i \in 1..Len(b) |->
                    Cardinality({o \in opens : o <= i}) - Cardinality({c \in closes : c <= i})]
    IN  /\ b # << >>
        /\ b[1] = "{"
        /\ b[Len(b)] = "}"
        /\ Cardinality(quotes) % 2 = 0
        /\ depth[Len(b)] = 0
        /\ \A i \in 1..(Len(b) - 1) : depth[i] >= 1

\* the lines of a stream: what stands before each newline byte; and what is left after the
\* last one
Newlines(b) == {i \in 1..Len(b) : b[i] = NL}
LineBefore(b, i) ==
    LET before == {j \in Newlines(b) : j < i}
        from == IF before = {} THEN 1 ELSE (CHOOSE j \in before : \A k \in before : k <= j) + 1
    IN  SubSeq(b, from, i - 1)

\* C30: every message written is one JSON object followed by one newline byte, its last
\* byte: the stream holds as many newline bytes as messages were written, it ends with
\* one, and what stands before each is one JSON object
C30_NewlineTerminatedObjects ==
    call.fn = "as_bytes" =>
        /\ Cardinality(Newlines(ret.stream)) = ret.written
        /\ ret.written > 0 => ret.stream[Len(ret.stream)] = NL
        /\ \A i \in Newlines(ret.stream) : IsOneObject(LineBefore(ret.stream, i))

\* for C30: a CurrentLayerInfo whose configuration text is a newline and a ServerResponse
\* error whose text holds a quote and a closing brace have been written
C30_Witness ==
    /\ call.fn = "as_bytes" /\ ret.done
    /\ call.msgs = << CurrentLayerInfo(<< "a", Quote >>, << NL >>),
                      ResponseError(<< >>, << Quote, "}" >>) >>
    /\ ret.written = 2
    /\ Len(ret.stream) > 20

\* C31: a ValidateConfig, a SetSessionMode or a ValidationResult written as JSON and read
\* back is the same variant with the same field values
C31_RoundTrip ==
    (call.fn = "round_trip" /\ ret.done) => ret.value = call.msg

\* for C31: a ValidationResult with an error with column and file, a warning without
\* them, and a request_id has made the round trip
C31_Witness ==
    /\ call.fn = "round_trip" /\ ret.done
    /\ call.msg.type = "ValidationResult"
    /\ ~call.msg.success
    /\ Len(call.msg.errors) = 1 /\ call.msg.errors[1].column = SomeNumber(15)
    /\ call.msg.errors[1].file # NoText /\ call.msg.errors[1].line = 42
    /\ Len(call.msg.warnings) = 1 /\ call.msg.warnings[1].column = NoNumber
    /\ call.msg.warnings[1].file = NoText
    /\ call.msg.request_id # NoText
    /\ ret.value.errors[1].message = << NL, Backslash >>
    /\ ret.value.warning_count = 10

\* for C31: a ValidateConfig without request_id and with a quote in its content
C31_WitnessClient ==
    /\ call.fn = "round_trip" /\ ret.done
    /\ call.msg.type = "ValidateConfig" /\ call.msg.request_id = NoText
    /\ ret.value.config_content = << Quote, NL >>

\* a call of the validator with a content of len bytes
IsValidatorCallOn(w, len) == w.fam = "Validator" /\ w.msg.len = len

\* C32: empty configuration content given to validate_config_content yields a
\* ValidationResult with success = false and at least one error, whose first error has
\* severity "error" and a line number greater than 0.
C32_EmptyContent ==
    \A c \in Conns :
        \A i \in 1..Len(resp[c]) :
            IsValidatorCallOn(resp[c][i], 0) =>
                /\ i < Len(resp[c])
                /\ IsValidationResult(resp[c][i + 1])
                /\ LET r == resp[c][i + 1].msg IN
                    /\ ~r.success
                    /\ Len(r.errors) >= 1
                    /\ r.errors[1].severity = "error"
                    /\ r.errors[1].line > 0

\* for C32: an empty content was validated and its result, with two errors, was written
C32_Witness ==
    \E c \in Conns :
        \E i \in 1..(Len(resp[c]) - 1) :
            /\ IsValidatorCallOn(resp[c][i], 0)
            /\ resp[c][i + 1].ok
            /\ resp[c][i + 1].msg.error_count = 2
            /\ resp[c][i + 1].msg.errors[2].category = "include"

\* the directory a path lies in, seen from the working directory
DirectoryOf(f, p) ==
    LET a == join(f.cwd, p)
    IN  Path(TRUE, NormParts(<< >>, SubSeq(a.parts, 1, Len(a.parts) - 1)))

\* the event is for a directory that holds a watched file
DirectoryOfWatched(f, event, watched) ==
    is_dir(f, event) /\ \E wf \in watched : DirectoryOf(f, wf) = Resolve(f, event)

\* the event is for a directory that is Path::parent() of a watched path as it was given
DirectoryIsParentPath(f, event, watched) ==
    is_dir(f, event) /\ \E wf \in watched : parent(wf).some /\ parent(wf).path = event

\* the event is for something that is no directory, lies in a directory with a watched
\* file and has the base name of no watched file
StrangerInWatchedDirectory(f, event, watched) ==
    /\ ~is_dir(f, event)
    /\ event.parts # << >>
    /\ \E wf \in watched : DirectoryOf(f, wf) = DirectoryOf(f, event)
    /\ \A wf \in watched : file_name(wf) # file_name(event)

LeadsToWatched(f, event, watched) == \E wf \in watched : Resolve(f, event) = Resolve(f, wf)

C33_WitnessStranger ==
    /\ CallbackDone
    /\ call.event = OtherFile /\ call.all_watched_files = {CfgAbs}
    /\ StrangerInWatchedDirectory(fs, call.event, call.all_watched_files)
    /\ ~ret.requested /\ ~kanata.live_reload_requested

\* the synthetic result for a content that is too large
IsOverflowResult(w) ==
    /\ IsValidationResult(w)
    /\ Len(w.msg.errors) = 1
    /\ w.msg.errors[1].line = 0
    /\ w.msg.errors[1].help_text = "Reduce configuration size"

\* C34: the ValidateConfig size limit is exclusive: a content of exactly 1,000,000 bytes,
\* and any shorter one, is passed to the validator and answered with the validator's
\* ValidationResult; only a content of 1,000,001 bytes or more gets the synthetic
\* overflow result.
C34_ExclusiveLimit ==
    \A c \in Conns :
        (cur[c].type = "ValidateConfig" /\ Dispatched(c)) =>
            LET w == resp[c][Len(resp[c])] IN
            IF cur[c].len <= 1000000
            THEN /\ Count(resp[c], IsValidatorCall) = 1
                 /\ \E i \in 1..Len(resp[c]) : IsValidatorCallOn(resp[c][i], cur[c].len)
                 /\ ~IsOverflowResult(w)
                 /\ \E out \in validate_config_str(cur[c].len) :
                        /\ w.msg.error_count = Len(out[1])
                        /\ w.msg.warning_count = Len(out[2])
                        /\ \A i \in 1..Len(out[1]) : w.msg.errors[i].line = out[1][i].line
            ELSE /\ cur[c].len >= 1000001
                 /\ Count(resp[c], IsValidatorCall) = 0
                 /\ IsOverflowResult(w)

\* for C34: a content of exactly 1,000,000 bytes was given to the validator and one of
\* 1,000,001 bytes got the overflow result
C34_Witness ==
    \E c, d \in Conns :
        /\ cur[c].type = "ValidateConfig" /\ Dispatched(c) /\ cur[c].len = 1000000
        /\ Count(resp[c], IsValidatorCall) = 1
        /\ resp[c][Len(resp[c])].ok /\ IsValidationResult(resp[c][Len(resp[c])])
        /\ cur[d].type = "ValidateConfig" /\ Dispatched(d) /\ cur[d].len = 1000001
        /\ IsOverflowResult(resp[d][Len(resp[d])])

\* a command whose initial push failed: its reader has stopped with the failed write as
\* its only write, and its registry entry is gone
C35_State ==
    \A c \in Conns :
        (IsCommand(cur[c]) /\ PushFailed(c)) =>
            /\ phase[c] = "done"
            /\ pc[c] # "dispatch" /\ pc[c] # "wake"
            /\ Len(resp[c]) = 1
            /\ ~InRegistry(c)

\* the step that reads the command and fails to push leaves the engine state and the
\* wake-up channel alone, and no step of that reader follows
C35_Step ==
    \A c \in Conns :
        /\ (JustRead(c) /\ IsCommand(cur'[c]) /\ PushFailed(c)')
            => (kanata' = kanata /\ wakes' = wakes /\ connections'[peer[c]] = NoConn)
        /\ (IsCommand(cur[c]) /\ PushFailed(c))
            => (resp'[c] = resp[c] /\ wakes'[c] = wakes[c] /\ sent'[c] = sent[c]
                /\ cur'[c] = cur[c] /\ phase'[c] = "done")

\* C35: when the write of the initial LayerChange push for a non-SetSessionMode command
\* fails, the command is not dispatched: the engine state is unchanged by it, no reply is
\* attempted, no wake-up event is pushed, the connection is removed from the registry and
\* the reader stops.
C35_FailedPushSkipsCommand == C35_State /\ [][C35_State' /\ C35_Step]_vars

\* for C35: a ChangeLayer to another layer was read, its push failed, and the layer is
\* still the old one
C35_Witness ==
    \E c \in Conns :
        /\ cur[c].type = "ChangeLayer" /\ PushFailed(c)
        /\ phase[c] = "done" /\ wakes[c] = 0 /\ ~InRegistry(c)
        /\ cur[c].new = "nav" /\ CurrentLayerName(kanata) = "base"

\* the paths the installed watcher is subscribed to
InstalledPaths == UNION {w.paths : w \in {v \in live : v.id = file_watcher}}

\* C36: whenever a watcher handle is installed in the engine state and no restart is
\* requested, the paths that watcher is subscribed to are the engine state's current
\* cfg_paths and included_files, under every interleaving of start_file_watcher with
\* reloads that change the path lists and with restart_watcher.
C36_WatcherFollowsLists ==
    (file_watcher # NoWatcher /\ ~file_watcher_restart_requested) =>
        InstalledPaths = all_watched_files(cfg_paths, included_files)

\* the same while start_file_watcher has returned before the engine loop first runs
C36_WitnessSequential ==
    /\ spc = "done" /\ restarts = 1
    /\ file_watcher # NoWatcher /\ ~file_watcher_restart_requested
    /\ InstalledPaths = all_watched_files(cfg_paths, included_files)
    /\ included_files = IncludeFiles

\* C37: the cleanup of one connection never removes the registry entry of another: when a
\* connection is accepted from the peer address of an earlier, closed connection whose
\* reader has not yet run its final removal, the entry of the new, live connection is
\* still there after that removal.
C37_CleanupKeepsOtherEntries ==
    [][\A d \in Conns :
        (InRegistry(d) /\ phase[d] = "open" /\ ~closed[d] /\ phase'[d] = "open")
            => InRegistry(d)']_vars

\* parent_dir_match for one watched path
TierFourMatches(event, wf) ==
    /\ parent(event).some
    /\ parent(wf) = parent(event)
    /\ file_name(wf).some
    /\ file_name(event).some
    /\ file_name(wf) = file_name(event)

C38_WitnessTempFile ==
    /\ CallbackDone
    /\ call.event = OtherFile /\ CfgAbs \in call.all_watched_files
    /\ parent(call.event) = parent(CfgAbs)
    /\ ~parent_dir_match(fs, call.event, call.all_watched_files)
    /\ ret.kind = "other"

\* start_file_watcher stores what it has discovered before it creates the watcher
C39_Step ==
    /\ (spc = "store" /\ spc' = "new") => included_files' = start_included_files'
    /\ (spc # "failed" /\ spc' = "failed") =>
        /\ included_files' = start_included_files
        /\ file_watcher' = NoWatcher

\* C39: a failing start_file_watcher does not leave the engine state unchanged: the
\* discovered include list is stored in included_files before the watcher is created, so
\* after a failed start included_files holds the newly discovered list while the watcher
\* handle is not installed.
C39_FailedStartKeepsList == [][C39_Step]_vars

\* for C39: the creation of the watcher failed, and the engine state holds an include
\* list it did not hold before the call
C39_Witness ==
    /\ spc = "failed"
    /\ created = 0
    /\ restarts = 0 /\ epc = "idle" /\ ~Flag
    /\ included_files = {"inc1"}
    /\ file_watcher = NoWatcher

\* the threads that take the locks
LockThreads == Conns \cup {"engine", "accept"}

\* the threads a thread is waiting for: the holder of the lock it wants, or the receiver
\* of the wake-up channel when the channel is full
WaitsFor(t) ==
    IF t \in Conns
    THEN IF phase[t] # "open" THEN {}
         ELSE IF pc[t] \in {"push_lock", "dispatch"} /\ klock # "free" THEN {klock}
         ELSE IF pc[t] \in {"remove", "final_remove"} /\ rlock # "free" THEN {rlock}
         ELSE IF pc[t] = "wake" /\ wakeup_channel = WakeupCapacity THEN {"engine"}
         ELSE {}
    ELSE IF t = "engine"
    THEN IF epc = "idle" /\ klock # "free" THEN {klock} ELSE {}
    ELSE IF listening /\ rlock # "free" THEN {rlock} ELSE {}

\* t waits, directly or through other waiting threads, for u
WaitsThrough(t, u) ==
    \/ u \in WaitsFor(t)
    \/ \E v \in WaitsFor(t) :
        \/ u \in WaitsFor(v)
        \/ \E w \in WaitsFor(v) :
            \/ u \in WaitsFor(w)
            \/ \E x \in WaitsFor(w) : u \in WaitsFor(x)

\* who holds what: a lock is held by a running thread, a reader about to send on the
\* wake-up channel holds no engine lock, and nobody waits for itself
C40_State ==
    /\ \A c \in Conns : klock = c => phase[c] = "open"
    /\ \A c \in Conns : rlock = c => phase[c] = "open"
    /\ \A c \in Conns : (phase[c] = "open" /\ pc[c] = "wake") => (klock # c /\ rlock # c)
    /\ \A t \in LockThreads : ~WaitsThrough(t, t)
    /\ (\E t \in LockThreads : WaitsFor(t) # {})
        => \E u \in LockThreads :
            /\ WaitsFor(u) = {}
            /\ \E t \in LockThreads : WaitsThrough(t, u)

\* the order of the locks: the engine lock is never taken by a thread that holds the
\* registry lock
C40_Step ==
    \A c \in Conns : (klock # c /\ klock' = c) => (rlock # c /\ rlock' # c)

====
